---- MODULE Spec2Model ----
(***************************************************************************)
(* The memory-management core of the kernel: the three heap allocators     *)
(* (bump, linked list, fixed-size block) behind the GlobalAlloc interface, *)
(* and the boot-info frame allocator.                                      *)
(*                                                                         *)
(* Addresses and sizes are usize values.  usize is modelled WordBits wide  *)
(* instead of 64 bits; HEAP_START keeps the shape of the source's value    *)
(* (a 64 KiB aligned address in the lower half of the address space).      *)
(***************************************************************************)
EXTENDS Integers, Naturals, Sequences, FiniteSets, TLC

(***************************************************************************)
(* Machine words                                                           *)
(***************************************************************************)
WordBits == 24
USIZE_MAX == 2^WordBits - 1
ISIZE_MAX == 2^(WordBits - 1) - 1

\* Option<usize>::None and Result::Err of the helpers below.
None == -1
\* ptr::null_mut()
NULL == 0

\* usize::checked_add
checked_add(a, b) == IF a + b > USIZE_MAX THEN None ELSE a + b

Max(a, b) == IF a >= b THEN a ELSE b

IsPow2(n) == n \in {2^k : k \in 0..(WordBits - 1)}

\* super::align_up: round addr up to the next multiple of align (a power of two).
align_up(addr, align) == ((addr + align - 1) \div align) * align

(***************************************************************************)
(* core::alloc::Layout                                                     *)
(***************************************************************************)
Layout(size, align) == [size |-> size, align |-> align]

\* Layout::from_size_align succeeds: align is a power of two and the size,
\* rounded up to align, does not exceed isize::MAX.
ValidLayout(l) ==
    /\ IsPow2(l.align)
    /\ l.size >= 0
    /\ align_up(l.size, l.align) <= ISIZE_MAX

\* Layout::align_to: Err (ok = FALSE) when the raised alignment makes the layout
\* invalid.
align_to(l, align) ==
    LET r == Layout(l.size, Max(l.align, align))
    IN [ok |-> ValidLayout(r), layout |-> r]

\* Layout::pad_to_align
pad_to_align(l) == Layout(align_up(l.size, l.align), l.align)

(***************************************************************************)
(* Heap constants (allocator.rs)                                           *)
(***************************************************************************)
\* 0x_4444_4444_0000 in the source; the same shape in a WordBits-wide usize.
HEAP_START == 68 * 65536
HEAP_SIZE == 100 * 1024

\* The heap handed to init in the exhaustive exploration: HeapWords words of
\* 8 bytes (a multiple of the word size, as HEAP_SIZE is).
HeapWords == 8
SmallHeap == HeapWords * 8

(***************************************************************************)
(* Bump allocator (allocator/bump.rs)                                      *)
(***************************************************************************)
BumpAllocator_new == [heap_start |-> 0, heap_end |-> 0, next |-> 0, allocations |-> 0]

\* An init that leaves next where new() put it.
BumpAllocator_init_no_next(b, heap_start, heap_size) ==
    [b EXCEPT !.heap_start = heap_start, !.heap_end = heap_start + heap_size]

BumpAllocator_init(b, heap_start, heap_size) ==
    [b EXCEPT !.heap_start = heap_start,
              !.heap_end = heap_start + heap_size,
              !.next = heap_start]

\* The result of an allocator call: the state it leaves, the pointer it
\* returns and whether it panicked.
Res(st, ptr, panic) == [st |-> st, ptr |-> ptr, panic |-> panic]

\* A bump alloc that hands out next as it is, without rounding it up.
bump_alloc_fn_unaligned(b, layout) ==
    LET alloc_start == b.next
        alloc_end == checked_add(alloc_start, layout.size)
    IN IF alloc_end = None THEN Res(b, NULL, FALSE)
       ELSE IF alloc_end > b.heap_end THEN Res(b, NULL, FALSE)
       ELSE Res([b EXCEPT !.next = alloc_end, !.allocations = b.allocations + 1],
                alloc_start, FALSE)

\* A bump alloc that does not count the allocation.
bump_alloc_fn_uncounted(b, layout) ==
    LET alloc_start == align_up(b.next, layout.align)
        alloc_end == checked_add(alloc_start, layout.size)
    IN IF alloc_end = None THEN Res(b, NULL, FALSE)
       ELSE IF alloc_end > b.heap_end THEN Res(b, NULL, FALSE)
       ELSE Res([b EXCEPT !.next = alloc_end], alloc_start, FALSE)

\* A bump alloc that moves next before it checks the bounds.
bump_alloc_fn_moves_first(b, layout) ==
    LET alloc_start == align_up(b.next, layout.align)
        alloc_end == checked_add(alloc_start, layout.size)
    IN IF alloc_end = None THEN Res(b, NULL, FALSE)
       ELSE IF alloc_end > b.heap_end THEN Res([b EXCEPT !.next = alloc_end], NULL, FALSE)
       ELSE Res([b EXCEPT !.next = alloc_end, !.allocations = b.allocations + 1],
                alloc_start, FALSE)

\* A bump alloc that counts the calls it turns down as well.
bump_alloc_fn_counts_failures(b, layout) ==
    LET alloc_start == align_up(b.next, layout.align)
        alloc_end == checked_add(alloc_start, layout.size)
    IN IF alloc_end = None THEN Res(b, NULL, FALSE)
       ELSE IF alloc_end > b.heap_end
            THEN Res([b EXCEPT !.allocations = b.allocations + 1], NULL, FALSE)
       ELSE Res([b EXCEPT !.next = alloc_end, !.allocations = b.allocations + 1],
                alloc_start, FALSE)

bump_alloc_fn(b, layout) ==
    LET alloc_start == align_up(b.next, layout.align)
        alloc_end == checked_add(alloc_start, layout.size)
    IN IF alloc_end = None THEN Res(b, NULL, FALSE)
       ELSE IF alloc_end > b.heap_end THEN Res(b, NULL, FALSE)
       ELSE Res([b EXCEPT !.next = alloc_end, !.allocations = b.allocations + 1],
                alloc_start, FALSE)

\* A bump dealloc that resets next on every call.
bump_dealloc_fn_always_reset(b) ==
    IF b.allocations = 0 THEN Res(b, NULL, TRUE)
    ELSE Res([b EXCEPT !.allocations = b.allocations - 1, !.next = b.heap_start],
             NULL, FALSE)

\* A bump dealloc that never resets next.
bump_dealloc_fn_never_reset(b) ==
    IF b.allocations = 0 THEN Res(b, NULL, TRUE)
    ELSE Res([b EXCEPT !.allocations = b.allocations - 1], NULL, FALSE)

\* A bump dealloc that resets next when one allocation is left.
bump_dealloc_fn_reset_early(b) ==
    IF b.allocations = 0 THEN Res(b, NULL, TRUE)
    ELSE LET n == b.allocations - 1
         IN Res([b EXCEPT !.allocations = n,
                          !.next = IF n <= 1 THEN b.heap_start ELSE b.next],
                NULL, FALSE)

\* allocations -= 1 on a zero counter overflows: a panic in a build with
\* overflow checks.
bump_dealloc_fn(b) ==
    IF b.allocations = 0 THEN Res(b, NULL, TRUE)
    ELSE LET n == b.allocations - 1
         IN Res([b EXCEPT !.allocations = n,
                          !.next = IF n = 0 THEN b.heap_start ELSE b.next],
                NULL, FALSE)

(***************************************************************************)
(* Linked list allocator (allocator/linked_list.rs)                        *)
(***************************************************************************)
\* mem::size_of::<ListNode>() and mem::align_of::<ListNode>(): a usize and an
\* Option<&'static mut ListNode> on x86_64.
LIST_NODE_SIZE == 16
LIST_NODE_ALIGN == 8

\* A free-list node: the address it is written at and its size field.  The
\* list head.next -> ... is the sequence of its nodes.
ListNode(addr, size) == [addr |-> addr, size |-> size]
start_addr(region) == region.addr
end_addr(region) == start_addr(region) + region.size

LinkedListAllocator_new == << >>

\* An add_free_region that checks its arguments after it has linked the node.
add_free_region_assert_late(list, addr, size) ==
    IF align_up(addr, LIST_NODE_ALIGN) # addr
    THEN Res(<<ListNode(addr, size)>> \o list, NULL, TRUE)
    ELSE IF ~(size >= LIST_NODE_SIZE)
    THEN Res(<<ListNode(addr, size)>> \o list, NULL, TRUE)
    ELSE Res(<<ListNode(addr, size)>> \o list, NULL, FALSE)

\* An add_free_region that appends the node at the end of the list.
add_free_region_back(list, addr, size) ==
    IF align_up(addr, LIST_NODE_ALIGN) # addr THEN Res(list, NULL, TRUE)
    ELSE IF ~(size >= LIST_NODE_SIZE) THEN Res(list, NULL, TRUE)
    ELSE Res(list \o <<ListNode(addr, size)>>, NULL, FALSE)

\* add_free_region: Res.panic when one of the two assertions fails, the list
\* untouched; else the node is pushed to the front.
add_free_region(list, addr, size) ==
    IF align_up(addr, LIST_NODE_ALIGN) # addr THEN Res(list, NULL, TRUE)
    ELSE IF ~(size >= LIST_NODE_SIZE) THEN Res(list, NULL, TRUE)
    ELSE Res(<<ListNode(addr, size)>> \o list, NULL, FALSE)

LinkedListAllocator_init(list, heap_start, heap_size) ==
    add_free_region(list, heap_start, heap_size)

\* An alloc_from_region that accepts a region whatever the excess is.
alloc_from_region_any_excess(region, size, align) ==
    LET alloc_start == align_up(start_addr(region), align)
        alloc_end == checked_add(alloc_start, size)
    IN IF alloc_end = None THEN None
       ELSE IF alloc_end > end_addr(region) THEN None
       ELSE alloc_start

\* An alloc_from_region that rejects a region the allocation fills exactly.
alloc_from_region_strict(region, size, align) ==
    LET alloc_start == align_up(start_addr(region), align)
        alloc_end == checked_add(alloc_start, size)
    IN IF alloc_end = None THEN None
       ELSE IF alloc_end >= end_addr(region) THEN None
       ELSE LET excess_size == end_addr(region) - alloc_end
            IN IF excess_size > 0 /\ excess_size < LIST_NODE_SIZE THEN None
               ELSE alloc_start

\* alloc_from_region: Ok(alloc_start) or Err (None).
alloc_from_region(region, size, align) ==
    LET alloc_start == align_up(start_addr(region), align)
        alloc_end == checked_add(alloc_start, size)
    IN IF alloc_end = None THEN None
       ELSE IF alloc_end > end_addr(region) THEN None
       ELSE LET excess_size == end_addr(region) - alloc_end
            IN IF excess_size > 0 /\ excess_size < LIST_NODE_SIZE THEN None
               ELSE alloc_start

\* A find_region that unlinks the last suitable node instead of the first.
find_region_last(list, size, align) ==
    LET fits == {i \in 1..Len(list) : alloc_from_region(list[i], size, align) # None}
    IN IF fits = {} THEN [found |-> FALSE, list |-> list,
                          region |-> ListNode(0, 0), alloc_start |-> 0]
       ELSE LET i == CHOOSE k \in fits : \A j \in fits : k >= j
            IN [found |-> TRUE,
                list |-> SubSeq(list, 1, i - 1) \o SubSeq(list, i + 1, Len(list)),
                region |-> list[i],
                alloc_start |-> alloc_from_region(list[i], size, align)]

\* A find_region that leaves the chosen node in the list.
find_region_keep(list, size, align) ==
    LET fits == {i \in 1..Len(list) : alloc_from_region(list[i], size, align) # None}
    IN IF fits = {} THEN [found |-> FALSE, list |-> list,
                          region |-> ListNode(0, 0), alloc_start |-> 0]
       ELSE LET i == CHOOSE k \in fits : \A j \in fits : k <= j
            IN [found |-> TRUE,
                list |-> list,
                region |-> list[i],
                alloc_start |-> alloc_from_region(list[i], size, align)]

\* find_region: the first node in list order that alloc_from_region accepts is
\* unlinked.  found = FALSE when no node is suitable.
find_region(list, size, align) ==
    LET fits == {i \in 1..Len(list) : alloc_from_region(list[i], size, align) # None}
    IN IF fits = {} THEN [found |-> FALSE, list |-> list,
                          region |-> ListNode(0, 0), alloc_start |-> 0]
       ELSE LET i == CHOOSE k \in fits : \A j \in fits : k <= j
            IN [found |-> TRUE,
                list |-> SubSeq(list, 1, i - 1) \o SubSeq(list, i + 1, Len(list)),
                region |-> list[i],
                alloc_start |-> alloc_from_region(list[i], size, align)]

\* A size_align that does not round the size up to the alignment.
size_align_unpadded(layout) ==
    LET a == align_to(layout, LIST_NODE_ALIGN)
    IN [ok |-> a.ok, size |-> Max(a.layout.size, LIST_NODE_SIZE), align |-> a.layout.align]

\* size_align: ok = FALSE when align_to fails (the expect panics); else the
\* adjusted (size, align).
size_align(layout) ==
    LET a == align_to(layout, LIST_NODE_ALIGN)
        p == pad_to_align(a.layout)
    IN [ok |-> a.ok, size |-> Max(p.size, LIST_NODE_SIZE), align |-> p.align]

\* An alloc that keeps the whole region it found, excess included.
linked_list_alloc_fn_whole_region(list, layout) ==
    LET sa == size_align(layout)
    IN IF ~sa.ok THEN Res(list, NULL, TRUE)
       ELSE LET f == find_region(list, sa.size, sa.align)
            IN IF ~f.found THEN Res(list, NULL, FALSE)
               ELSE Res(f.list, f.alloc_start, FALSE)

linked_list_alloc_fn(list, layout) ==
    LET sa == size_align(layout)
    IN IF ~sa.ok THEN Res(list, NULL, TRUE)
       ELSE LET f == find_region(list, sa.size, sa.align)
            IN IF ~f.found THEN Res(list, NULL, FALSE)
               ELSE LET alloc_end == checked_add(f.alloc_start, sa.size)
                        excess_size == end_addr(f.region) - alloc_end
                    IN IF alloc_end = None THEN Res(f.list, NULL, TRUE)
                       ELSE IF excess_size > 0
                            THEN LET r == add_free_region(f.list, alloc_end, excess_size)
                                 IN Res(r.st, IF r.panic THEN NULL ELSE f.alloc_start, r.panic)
                            ELSE Res(f.list, f.alloc_start, FALSE)

\* A dealloc that joins the freed block with the first node when that node
\* starts where the block ends.
linked_list_dealloc_fn_merge(list, ptr, layout) ==
    LET sa == size_align(layout)
    IN IF ~sa.ok THEN Res(list, NULL, TRUE)
       ELSE IF list # << >> /\ Head(list).addr = ptr + sa.size
            THEN add_free_region(Tail(list), ptr, sa.size + Head(list).size)
            ELSE add_free_region(list, ptr, sa.size)

\* A dealloc that drops the block instead of adding it to the free list.
linked_list_dealloc_fn_leak(list, ptr, layout) ==
    LET sa == size_align(layout)
    IN IF ~sa.ok THEN Res(list, NULL, TRUE)
       ELSE Res(list, NULL, FALSE)

linked_list_dealloc_fn(list, ptr, layout) ==
    LET sa == size_align(layout)
    IN IF ~sa.ok THEN Res(list, NULL, TRUE)
       ELSE add_free_region(list, ptr, sa.size)

(***************************************************************************)
(* The fallback heap of the fixed-size block allocator: the Heap type of   *)
(* the linked_list_allocator crate.  Its holes are kept sorted by address  *)
(* and a freed block is merged with the holes that touch it.               *)
(***************************************************************************)
\* HoleList::min_size(): two machine words.
HOLE_MIN_SIZE == 16
HOLE_ALIGN == 8

Hole(addr, size) == [addr |-> addr, size |-> size]

\* Heap::empty()
Heap_empty == [bottom |-> 0, size |-> 0, used |-> 0, holes |-> << >>]

\* Heap::init: one hole over the whole range.
Heap_init(heap_bottom, heap_size) ==
    [bottom |-> heap_bottom, size |-> heap_size, used |-> 0,
     holes |-> <<Hole(heap_bottom, heap_size)>>]

\* The size a request is rounded to by allocate_first_fit and deallocate.
Heap_round(layout) ==
    Layout(align_up(Max(layout.size, HOLE_MIN_SIZE), HOLE_ALIGN), layout.align)

\* split_hole: the allocation with its paddings, ok = FALSE when the hole cannot
\* host the request or a padding would be shorter than a hole.
split_hole(hole, required) ==
    LET aligned == hole.addr = align_up(hole.addr, required.align)
        aligned_addr == IF aligned THEN hole.addr
                        ELSE align_up(hole.addr + HOLE_MIN_SIZE, required.align)
        aligned_size == hole.size - (aligned_addr - hole.addr)
        front == IF aligned THEN << >>
                 ELSE <<Hole(hole.addr, aligned_addr - hole.addr)>>
        back == IF aligned_size = required.size THEN << >>
                ELSE <<Hole(aligned_addr + required.size, aligned_size - required.size)>>
    IN [ok |-> /\ aligned_size >= required.size
               /\ (aligned_size = required.size
                   \/ aligned_size - required.size >= HOLE_MIN_SIZE),
        addr |-> aligned_addr,
        left |-> front \o back]

\* Heap::allocate_first_fit: the first hole in address order that split_hole
\* accepts is replaced by its paddings; Err (a null pointer) when none does.
allocate_first_fit(heap, layout) ==
    LET required == Heap_round(layout)
        fits == {i \in 1..Len(heap.holes) : split_hole(heap.holes[i], required).ok}
    IN IF fits = {} THEN Res(heap, NULL, FALSE)
       ELSE LET i == CHOOSE k \in fits : \A j \in fits : k <= j
                a == split_hole(heap.holes[i], required)
            IN Res([heap EXCEPT
                      !.used = heap.used + required.size,
                      !.holes = SubSeq(heap.holes, 1, i - 1) \o a.left
                                \o SubSeq(heap.holes, i + 1, Len(heap.holes))],
                   a.addr, FALSE)

\* Heap::deallocate: the block becomes a hole at its place in address order,
\* merged with the hole that ends at it and with the hole that starts at its end.
Heap_deallocate(heap, ptr, layout) ==
    LET size == Heap_round(layout).size
        h == heap.holes
        before == {i \in 1..Len(h) : h[i].addr < ptr}
        n == Cardinality(before)
        joinPrev == n > 0 /\ h[n].addr + h[n].size = ptr
        joinNext == n < Len(h) /\ ptr + size = h[n + 1].addr
        start == IF joinPrev THEN h[n].addr ELSE ptr
        end == IF joinNext THEN h[n + 1].addr + h[n + 1].size ELSE ptr + size
        pre == SubSeq(h, 1, IF joinPrev THEN n - 1 ELSE n)
        post == SubSeq(h, IF joinNext THEN n + 2 ELSE n + 1, Len(h))
    IN [heap EXCEPT !.used = heap.used - size,
                    !.holes = pre \o <<Hole(start, end - start)>> \o post]

(***************************************************************************)
(* Fixed-size block allocator (allocator/fixed_size_block.rs)              *)
(***************************************************************************)
BLOCK_SIZES == <<8, 16, 32, 64, 128, 256, 512, 1024, 2048>>

\* size_of and align_of of the block allocator's ListNode (one pointer).
BLOCK_NODE_SIZE == 8
BLOCK_NODE_ALIGN == 8

\* A list_index that looks at the size only.
list_index_size_only(layout) ==
    LET required_block_size == layout.size
        ok == {i \in 1..Len(BLOCK_SIZES) : BLOCK_SIZES[i] >= required_block_size}
    IN IF ok = {} THEN None
       ELSE (CHOOSE k \in ok : \A j \in ok : k <= j) - 1

\* list_index: the position (from 0) of the first block size that is at least
\* max(size, align); None when there is none.
list_index(layout) ==
    LET required_block_size == Max(layout.size, layout.align)
        ok == {i \in 1..Len(BLOCK_SIZES) : BLOCK_SIZES[i] >= required_block_size}
    IN IF ok = {} THEN None
       ELSE (CHOOSE k \in ok : \A j \in ok : k <= j) - 1

\* list_heads[i] is the chain of block addresses of class i - 1, head first.
FixedSizeBlockAllocator_new ==
    [list_heads |-> [i \in 1..Len(BLOCK_SIZES) |-> << >>],
     fallback_allocator |-> Heap_empty]

FixedSizeBlockAllocator_init(a, heap_start, heap_size) ==
    [a EXCEPT !.fallback_allocator = Heap_init(heap_start, heap_size)]

\* A fallback_alloc that unwraps the result of allocate_first_fit.
fallback_alloc_unwrap(a, layout) ==
    LET r == allocate_first_fit(a.fallback_allocator, layout)
    IN Res([a EXCEPT !.fallback_allocator = r.st], r.ptr, r.panic \/ r.ptr = NULL)

fallback_alloc(a, layout) ==
    LET r == allocate_first_fit(a.fallback_allocator, layout)
    IN Res([a EXCEPT !.fallback_allocator = r.st], r.ptr, r.panic)

\* An alloc that asks the fallback heap for the requested layout when the
\* class list is empty.
fixed_size_block_alloc_fn_requested(a, layout) ==
    LET index == list_index(layout)
    IN IF index # None
       THEN IF a.list_heads[index + 1] # << >>
            THEN Res([a EXCEPT !.list_heads[index + 1] = Tail(@)],
                     Head(a.list_heads[index + 1]), FALSE)
            ELSE fallback_alloc(a, layout)
       ELSE fallback_alloc(a, layout)

\* An alloc that takes the block at the end of the class list.
fixed_size_block_alloc_fn_fifo(a, layout) ==
    LET index == list_index(layout)
    IN IF index # None
       THEN IF a.list_heads[index + 1] # << >>
            THEN Res([a EXCEPT !.list_heads[index + 1] = SubSeq(@, 1, Len(@) - 1)],
                     a.list_heads[index + 1][Len(a.list_heads[index + 1])], FALSE)
            ELSE LET block_size == BLOCK_SIZES[index + 1]
                     block_align == block_size
                 IN fallback_alloc(a, Layout(block_size, block_align))
       ELSE fallback_alloc(a, layout)

\* An alloc that returns the head of the class list and leaves it in the list.
fixed_size_block_alloc_fn_peek(a, layout) ==
    LET index == list_index(layout)
    IN IF index # None
       THEN IF a.list_heads[index + 1] # << >>
            THEN Res(a, Head(a.list_heads[index + 1]), FALSE)
            ELSE LET block_size == BLOCK_SIZES[index + 1]
                     block_align == block_size
                 IN fallback_alloc(a, Layout(block_size, block_align))
       ELSE fallback_alloc(a, layout)

fixed_size_block_alloc_fn(a, layout) ==
    LET index == list_index(layout)
    IN IF index # None
       THEN IF a.list_heads[index + 1] # << >>
            THEN Res([a EXCEPT !.list_heads[index + 1] = Tail(@)],
                     Head(a.list_heads[index + 1]), FALSE)
            ELSE LET block_size == BLOCK_SIZES[index + 1]
                     block_align == block_size
                 IN fallback_alloc(a, Layout(block_size, block_align))
       ELSE fallback_alloc(a, layout)

\* A dealloc that puts the block at the end of its class list.
fixed_size_block_dealloc_fn_append(a, ptr, layout) ==
    LET index == list_index(layout)
    IN IF index # None
       THEN Res([a EXCEPT !.list_heads[index + 1] = Append(@, ptr)], NULL, FALSE)
       ELSE IF ptr = NULL THEN Res(a, NULL, TRUE)
            ELSE Res([a EXCEPT !.fallback_allocator =
                                  Heap_deallocate(a.fallback_allocator, ptr, layout)],
                     NULL, FALSE)

\* A dealloc that gives every block back to the fallback heap, a block of a
\* class at the class's size.
fixed_size_block_dealloc_fn_to_fallback(a, ptr, layout) ==
    LET index == list_index(layout)
        l == IF index # None
             THEN Layout(BLOCK_SIZES[index + 1], BLOCK_SIZES[index + 1]) ELSE layout
    IN IF ptr = NULL THEN Res(a, NULL, TRUE)
       ELSE Res([a EXCEPT !.fallback_allocator =
                             Heap_deallocate(a.fallback_allocator, ptr, l)],
                NULL, FALSE)

fixed_size_block_dealloc_fn(a, ptr, layout) ==
    LET index == list_index(layout)
    IN IF index # None
       THEN IF ~(BLOCK_NODE_SIZE <= BLOCK_SIZES[index + 1]) THEN Res(a, NULL, TRUE)
            ELSE IF ~(BLOCK_NODE_ALIGN <= BLOCK_SIZES[index + 1]) THEN Res(a, NULL, TRUE)
            ELSE Res([a EXCEPT !.list_heads[index + 1] = <<ptr>> \o @], NULL, FALSE)
       ELSE IF ptr = NULL THEN Res(a, NULL, TRUE)
            ELSE Res([a EXCEPT !.fallback_allocator =
                                  Heap_deallocate(a.fallback_allocator, ptr, layout)],
                     NULL, FALSE)

(***************************************************************************)
(* The VGA text buffer (vga_buffer.rs).  The screen is BUFFER_HEIGHT rows  *)
(* of BUFFER_WIDTH characters, 25 by 80 in the kernel and scaled down      *)
(* here; bytes are their ASCII codes.  The Writer writes into the last row *)
(* and a newline shifts every row up by one.                               *)
(***************************************************************************)
BufferHeight == 3
BufferWidth == 3

NEWLINE == 10
BLANK == 32
UNPRINTABLE == 254

Rows == 0..(BufferHeight - 1)
Cols == 0..(BufferWidth - 1)

\* The Writer of the static WRITER: column 0, over the screen as it is.
Writer_new ==
    [column_position |-> 0, chars |-> [row \in Rows |-> [col \in Cols |-> BLANK]]]

\* clear_row
clear_row(w, row) == [w EXCEPT !.chars[row] = [col \in Cols |-> BLANK]]

\* new_line: every row moves up by one, the last row is cleared, column 0.
new_line(w) ==
    LET shifted == [w EXCEPT !.chars = [row \in Rows |->
                                          IF row + 1 \in Rows THEN w.chars[row + 1]
                                          ELSE w.chars[row]]]
    IN [clear_row(shifted, BufferHeight - 1) EXCEPT !.column_position = 0]

\* write_byte
write_byte(w, byte) ==
    IF byte = NEWLINE THEN new_line(w)
    ELSE LET w1 == IF w.column_position >= BufferWidth THEN new_line(w) ELSE w
             row == BufferHeight - 1
             col == w1.column_position
         IN [w1 EXCEPT !.chars[row][col] = byte,
                       !.column_position = @ + 1]

\* write_string: printable ASCII and newline as they are, any other byte as
\* 0xfe.
RECURSIVE write_string(_, _)
write_string(w, s) ==
    IF s = << >> THEN w
    ELSE write_string(
            IF (32 <= Head(s) /\ Head(s) <= 126) \/ Head(s) = NEWLINE
            THEN write_byte(w, Head(s)) ELSE write_byte(w, UNPRINTABLE),
            Tail(s))

\* The three spin locks free, interrupts not yet enabled, nothing printed.
NoVga ==
    [pc |-> "boot", WRITER |-> "free", SERIAL1 |-> "free", PICS |-> "free",
     interrupts |-> FALSE, saved |-> FALSE, writer |-> Writer_new,
     text |-> << >>, prints |-> 0, spin |-> FALSE]

(***************************************************************************)
(* The kernel's heap as a state machine.  One of the three allocators is   *)
(* the global allocator (selected at build time); init runs once, then     *)
(* alloc and dealloc calls arrive one at a time (each holds the allocator's*)
(* lock for the whole call).  No allocation is attempted before init, and  *)
(* dealloc is only called with a live block and the layout it was          *)
(* allocated with (the GlobalAlloc contract).                              *)
(***************************************************************************)
VARIABLES
    kind,       \* which allocator is the global allocator
    heap,       \* the (heap_start, heap_size) given to init; (0, 0) before
    inited,     \* init has run
    panicked,   \* a call panicked: the kernel has stopped
    bump,       \* Locked<BumpAllocator>
    head,       \* Locked<LinkedListAllocator>: the chain head.next -> ...
    fsb,        \* Locked<FixedSizeBlockAllocator>
    locked_heap, \* LockedHeap, the ALLOCATOR static of allocator.rs
    live,       \* the blocks handed out and not yet freed, with their layouts
    last,       \* the last call: its name, its layout, its pointer
    hist,       \* what the properties need to remember of earlier calls
    vec,        \* the vector of the large_vec test and the test's position
    fa,         \* the BootInfoFrameAllocator and the frames it has returned
    mapper,     \* the page tables init_heap maps the heap pages in
    ih,         \* init_heap: its position in the page range and its result
    lock,       \* the spin lock of the Locked allocator: its holder, or Free
    calls,      \* the alloc or dealloc call each execution context is in
    executor,   \* Executor: tasks, task_queue, waker_cache and where run() is
    keyboard,   \* the statics SCANCODE_QUEUE and WAKER of task::keyboard
    wakers,     \* strong count of each task's Arc<TaskWaker>
    irq,        \* what the interrupt handlers have done so far
    vga         \* the statics WRITER, SERIAL1 and PICS, the interrupt flag and
                \* where the code that prints is

vars == <<kind, heap, inited, panicked, bump, head, fsb, locked_heap, live, last, hist, vec, fa,
         mapper, ih, lock, calls, executor, keyboard, wakers, irq, vga>>

Kinds == {"bump", "linked_list", "fixed_size_block"}

\* The global allocator of a build: one of the three, or the LockedHeap that
\* allocator.rs declares.
BuildKinds == Kinds \cup {"locked_heap"}

\* How many blocks the callers hold at a time, and how many alloc/dealloc
\* cycles in a row are counted.
MaxLive == 3
MaxCycles == 3

Min(a, b) == IF a <= b THEN a ELSE b

\* Box<usize> and Box<i32>
USIZE_LAYOUT == Layout(8, 8)
I32_LAYOUT == Layout(4, 4)

\* The layouts the callers request: small ones of the usual types, with
\* alignments below, at and above the list node's.
SmallLayouts ==
    {I32_LAYOUT, USIZE_LAYOUT, Layout(24, 8), Layout(16, 16)}

\* Bytes not yet handed out: heap_end - next for the bump allocator, the sum
\* of the node sizes for the linked list allocator.
RECURSIVE SumSizes(_)
SumSizes(list) == IF list = << >> THEN 0 ELSE Head(list).size + SumSizes(Tail(list))

RemainingFree ==
    IF kind = "bump" THEN bump.heap_end - bump.next
    ELSE IF kind = "linked_list" THEN SumSizes(head)
    ELSE SumSizes(fsb.fallback_allocator.holes)

\* Requests drawn from the state: exactly what is left, the size of one free
\* node, more than the whole heap, and the largest size a Layout can have.
StateLayouts ==
    {Layout(n, 1) : n \in {RemainingFree} \ {0}}
    \cup {Layout(heap.size + 1, 1), Layout(ISIZE_MAX, 1)}

Requests == SmallLayouts \cup StateLayouts

Block(ptr, layout) == [ptr |-> ptr, size |-> layout.size, align |-> layout.align]
LayoutOf(b) == Layout(b.size, b.align)

\* Two blocks share no byte.
Disjoint(a, b) == a.ptr + a.size <= b.ptr \/ b.ptr + b.size <= a.ptr
Call(op, layout, ptr) == [op |-> op, size |-> layout.size, align |-> layout.align, ptr |-> ptr]

NoHist == [nops |-> 0, cycN |-> 0, cycL |-> Layout(0, 1), run |-> << >>, dup |-> FALSE]

\* The vector before the test starts, and no frame allocator.
NoVec == [pc |-> "idle", ptr |-> NULL, cap |-> 0, len |-> 0, data |-> << >>,
          min_cap |-> 0, i |-> 0, sum |-> 0, disjoint |-> TRUE]
NoFrames == [memory_map |-> << >>, next |-> 0, returned |-> << >>]
NoMapper == [tables |-> {}, table_frames |-> {}, entries |-> {}]
NoInitHeap == [pc |-> "idle", page |-> 0, attempted |-> << >>, result |-> "none"]

\* The execution contexts that may call the allocator, the lock not taken,
\* and a context that is in no call.
Contexts == {"c1", "c2"}
Free == "free"
NoCall == [pc |-> "idle", op |-> "none", layout |-> Layout(0, 1), ptr |-> NULL,
           guarded |-> TRUE, started |-> 0]
NoCalls == [c \in Contexts |-> NoCall]

\* The two tasks main spawns, by TaskId; no task.  The keyboard record keeps,
\* next to SCANCODE_QUEUE and WAKER, what was pushed, what poll_next has
\* returned and how many scancodes add_scancode dropped.
Tasks == {1, 2}
EXAMPLE_TASK == 1
PRINT_KEYPRESSES == 2
NoTask == 0
NoExecutor == [pc |-> "new", tasks |-> {}, task_queue |-> << >>, waker_cache |-> {},
               task_id |-> NoTask, skipped |-> FALSE]
NoKeyboard == [init |-> FALSE, queue |-> << >>, WAKER |-> NoTask,
               pushed |-> << >>, delivered |-> << >>, dropped |-> 0]
NoWakers == [t \in Tasks |-> 0]
NoIrq == [count |-> 0, last |-> "none", heap_ops |-> 0, deadlock |-> FALSE,
          woke |-> FALSE, in_lock |-> FALSE]
NoTasks ==
    /\ executor = NoExecutor /\ keyboard = NoKeyboard /\ wakers = NoWakers /\ irq = NoIrq
    /\ vga = NoVga

\* The allocators as their const constructors leave them, before init.
InitHeap ==
    /\ heap = [start |-> 0, size |-> 0]
    /\ inited = FALSE
    /\ panicked = FALSE
    /\ bump = BumpAllocator_new
    /\ head = LinkedListAllocator_new
    /\ fsb = FixedSizeBlockAllocator_new
    /\ locked_heap = Heap_empty
    /\ live = {}
    /\ last = Call("new", Layout(0, 1), NULL)
    /\ hist = NoHist

Init ==
    /\ kind \in Kinds
    /\ InitHeap
    /\ vec = NoVec
    /\ fa = NoFrames
    /\ mapper = NoMapper /\ ih = NoInitHeap
    /\ lock = Free /\ calls = NoCalls
    /\ NoTasks

\* What every init leaves besides the allocator's own state.
Initialised(heap_start, heap_size, panic) ==
    /\ heap' = [start |-> heap_start, size |-> heap_size]
    /\ inited' = TRUE
    /\ panicked' = panic
    /\ last' = Call("init", Layout(0, 1), NULL)
    /\ UNCHANGED <<kind, vga, live, hist>>

\* What every alloc leaves besides the allocator's own state: r is the call's
\* result.  hist counts the calls, remembers the blocks handed out since the
\* last dealloc, in order, and whether a block was handed out that was live.
Allocated(layout, r) ==
    LET got == r.ptr # NULL /\ ~r.panic
    IN /\ panicked' = r.panic
       /\ live' = IF got THEN live \cup {Block(r.ptr, layout)} ELSE live
       /\ last' = Call("alloc", layout, r.ptr)
       /\ hist' = [nops |-> Min(hist.nops + 1, 3),
                   cycN |-> IF layout = hist.cycL /\ last.op = "dealloc"
                            THEN hist.cycN ELSE 0,
                   cycL |-> layout,
                   run |-> IF got THEN Append(hist.run, Block(r.ptr, layout)) ELSE hist.run,
                   dup |-> hist.dup \/ (got /\ Block(r.ptr, layout) \in live)]
       /\ UNCHANGED <<kind, vga, heap, inited>>

\* What every dealloc of the live block b leaves besides the allocator's own
\* state.  cycN counts the cycles in a row in which a block was allocated and
\* freed at once, all with the same layout.
Deallocated(b, panic) ==
    LET cycle == last.op = "alloc" /\ last.ptr = b.ptr /\ LayoutOf(b) = hist.cycL
    IN /\ panicked' = panic
       /\ live' = live \ {b}
       /\ last' = Call("dealloc", LayoutOf(b), b.ptr)
       /\ hist' = [hist EXCEPT !.nops = Min(hist.nops + 1, 3),
                               !.cycN = IF cycle THEN Min(hist.cycN + 1, MaxCycles) ELSE 0,
                               !.cycL = LayoutOf(b),
                               !.run = << >>]
       /\ UNCHANGED <<kind, vga, heap, inited>>

CanCall == ~panicked
CanAlloc == CanCall /\ inited /\ Cardinality(live) < MaxLive

bump_init ==
    /\ kind = "bump" /\ ~inited
    /\ bump' = BumpAllocator_init(bump, HEAP_START, SmallHeap)
    /\ Initialised(HEAP_START, SmallHeap, FALSE)
    /\ UNCHANGED <<head, fsb, locked_heap, vec, fa, mapper, ih, lock, calls,
                   executor, keyboard, wakers, irq>>

bump_alloc ==
    /\ kind = "bump" /\ CanAlloc
    /\ \E layout \in Requests :
          LET r == bump_alloc_fn(bump, layout)
          IN bump' = r.st /\ Allocated(layout, r)
    /\ UNCHANGED <<head, fsb, locked_heap, vec, fa, mapper, ih, lock, calls,
                   executor, keyboard, wakers, irq>>

bump_dealloc ==
    /\ kind = "bump" /\ CanCall
    /\ \E b \in live :
          LET r == bump_dealloc_fn(bump)
          IN bump' = r.st /\ Deallocated(b, r.panic)
    /\ UNCHANGED <<head, fsb, locked_heap, vec, fa, mapper, ih, lock, calls,
                   executor, keyboard, wakers, irq>>

linked_list_init ==
    /\ kind = "linked_list" /\ ~inited
    /\ LET r == LinkedListAllocator_init(head, HEAP_START, SmallHeap)
       IN head' = r.st /\ Initialised(HEAP_START, SmallHeap, r.panic)
    /\ UNCHANGED <<bump, fsb, locked_heap, vec, fa, mapper, ih, lock, calls,
                   executor, keyboard, wakers, irq>>

linked_list_alloc ==
    /\ kind = "linked_list" /\ CanAlloc
    /\ \E layout \in Requests :
          LET r == linked_list_alloc_fn(head, layout)
          IN head' = r.st /\ Allocated(layout, r)
    /\ UNCHANGED <<bump, fsb, locked_heap, vec, fa, mapper, ih, lock, calls,
                   executor, keyboard, wakers, irq>>

linked_list_dealloc ==
    /\ kind = "linked_list" /\ CanCall
    /\ \E b \in live :
          LET r == linked_list_dealloc_fn(head, b.ptr, LayoutOf(b))
          IN head' = r.st /\ Deallocated(b, r.panic)
    /\ UNCHANGED <<bump, fsb, locked_heap, vec, fa, mapper, ih, lock, calls,
                   executor, keyboard, wakers, irq>>

fixed_size_block_init ==
    /\ kind = "fixed_size_block" /\ ~inited
    /\ fsb' = FixedSizeBlockAllocator_init(fsb, HEAP_START, SmallHeap)
    /\ Initialised(HEAP_START, SmallHeap, FALSE)
    /\ UNCHANGED <<bump, head, locked_heap, vec, fa, mapper, ih, lock, calls,
                   executor, keyboard, wakers, irq>>

fixed_size_block_alloc ==
    /\ kind = "fixed_size_block" /\ CanAlloc
    /\ \E layout \in Requests :
          LET r == fixed_size_block_alloc_fn(fsb, layout)
          IN fsb' = r.st /\ Allocated(layout, r)
    /\ UNCHANGED <<bump, head, locked_heap, vec, fa, mapper, ih, lock, calls,
                   executor, keyboard, wakers, irq>>

fixed_size_block_dealloc ==
    /\ kind = "fixed_size_block" /\ CanCall
    /\ \E b \in live :
          LET r == fixed_size_block_dealloc_fn(fsb, b.ptr, LayoutOf(b))
          IN fsb' = r.st /\ Deallocated(b, r.panic)
    /\ UNCHANGED <<bump, head, locked_heap, vec, fa, mapper, ih, lock, calls,
                   executor, keyboard, wakers, irq>>

Next ==
    \/ bump_init
    \/ bump_alloc
    \/ bump_dealloc
    \/ linked_list_init
    \/ linked_list_alloc
    \/ linked_list_dealloc
    \/ fixed_size_block_init
    \/ fixed_size_block_alloc
    \/ fixed_size_block_dealloc

Spec == Init /\ [][Next]_vars

\* The same machine with the bump allocator as the global allocator.
InitBump == Init /\ kind = "bump"

NextBump ==
    \/ bump_init
    \/ bump_alloc
    \/ bump_dealloc

SpecBump == InitBump /\ [][NextBump]_vars

\* The same machine with one of the two allocators that keep free lists as
\* the global allocator.
ListKinds == {"linked_list", "fixed_size_block"}

InitLists == Init /\ kind \in ListKinds

NextLists ==
    \/ linked_list_init
    \/ linked_list_alloc
    \/ linked_list_dealloc
    \/ fixed_size_block_init
    \/ fixed_size_block_alloc
    \/ fixed_size_block_dealloc

SpecLists == InitLists /\ [][NextLists]_vars

\* The fixed-size block allocator over a heap that is larger than the largest
\* block size, so that requests without a class can be served.
LargeHeap == BLOCK_SIZES[Len(BLOCK_SIZES)] + SmallHeap

fixed_size_block_init_large ==
    /\ kind = "fixed_size_block" /\ ~inited
    /\ fsb' = FixedSizeBlockAllocator_init(fsb, HEAP_START, LargeHeap)
    /\ Initialised(HEAP_START, LargeHeap, FALSE)
    /\ UNCHANGED <<bump, head, locked_heap, vec, fa, mapper, ih, lock, calls,
                   executor, keyboard, wakers, irq>>

\* The requests made of it: small ones, one larger than every class and one
\* that cannot be served.
LargeRequests ==
    {USIZE_LAYOUT, Layout(24, 8),
     Layout(BLOCK_SIZES[Len(BLOCK_SIZES)] + 1, 8),
     Layout(ISIZE_MAX, 1)}

\* A request that has no class because of its alignment alone.
OverAligned == Layout(8, 2 * BLOCK_SIZES[Len(BLOCK_SIZES)])

\* How many blocks the callers hold at a time on the large heap.
MaxHeld == 2

fixed_size_block_alloc_large ==
    /\ kind = "fixed_size_block" /\ CanAlloc /\ Cardinality(live) < MaxHeld
    /\ \E layout \in LargeRequests :
          LET r == fixed_size_block_alloc_fn(fsb, layout)
          IN fsb' = r.st /\ Allocated(layout, r)
    /\ UNCHANGED <<bump, head, locked_heap, vec, fa, mapper, ih, lock, calls,
                   executor, keyboard, wakers, irq>>

InitBlocks == Init /\ kind = "fixed_size_block"

NextBlocks ==
    \/ fixed_size_block_init_large
    \/ fixed_size_block_alloc_large
    \/ fixed_size_block_dealloc

SpecBlocks == InitBlocks /\ [][NextBlocks]_vars

(***************************************************************************)
(* tests/heap_allocation.rs: the kernel boots, maps the heap and           *)
(* initialises the global allocator with (HEAP_START, HEAP_SIZE), then the *)
(* test cases run in order: simple_allocation, large_vec.                  *)
(***************************************************************************)
\* The global allocator's state, and its entry points whichever allocator
\* it is.
GlobalState == [bump |-> bump, head |-> head, fsb |-> fsb, locked_heap |-> locked_heap]

global_init(k, st, heap_start, heap_size) ==
    IF k = "bump"
    THEN Res([st EXCEPT !.bump = BumpAllocator_init(st.bump, heap_start, heap_size)],
             NULL, FALSE)
    ELSE IF k = "linked_list"
    THEN LET r == LinkedListAllocator_init(st.head, heap_start, heap_size)
         IN Res([st EXCEPT !.head = r.st], NULL, r.panic)
    ELSE IF k = "fixed_size_block"
    THEN Res([st EXCEPT !.fsb = FixedSizeBlockAllocator_init(st.fsb, heap_start, heap_size)],
             NULL, FALSE)
    ELSE Res([st EXCEPT !.locked_heap = Heap_init(heap_start, heap_size)], NULL, FALSE)

global_alloc(k, st, layout) ==
    IF k = "bump"
    THEN LET r == bump_alloc_fn(st.bump, layout)
         IN Res([st EXCEPT !.bump = r.st], r.ptr, r.panic)
    ELSE IF k = "linked_list"
    THEN LET r == linked_list_alloc_fn(st.head, layout)
         IN Res([st EXCEPT !.head = r.st], r.ptr, r.panic)
    ELSE IF k = "fixed_size_block"
    THEN LET r == fixed_size_block_alloc_fn(st.fsb, layout)
         IN Res([st EXCEPT !.fsb = r.st], r.ptr, r.panic)
    ELSE LET r == allocate_first_fit(st.locked_heap, layout)
         IN Res([st EXCEPT !.locked_heap = r.st], r.ptr, r.panic)

global_dealloc(k, st, ptr, layout) ==
    IF k = "bump"
    THEN LET r == bump_dealloc_fn(st.bump)
         IN Res([st EXCEPT !.bump = r.st], NULL, r.panic)
    ELSE IF k = "linked_list"
    THEN LET r == linked_list_dealloc_fn(st.head, ptr, layout)
         IN Res([st EXCEPT !.head = r.st], NULL, r.panic)
    ELSE IF k = "fixed_size_block"
    THEN LET r == fixed_size_block_dealloc_fn(st.fsb, ptr, layout)
         IN Res([st EXCEPT !.fsb = r.st], NULL, r.panic)
    ELSE Res([st EXCEPT !.locked_heap = Heap_deallocate(st.locked_heap, ptr, layout)],
             NULL, FALSE)

SetGlobalState(st) ==
    bump' = st.bump /\ head' = st.head /\ fsb' = st.fsb /\ locked_heap' = st.locked_heap

\* let n = 1000, and the size and alignment of a u64.
N_VALUES == 1000
U64_SIZE == 8

VecLayout(cap) == Layout(U64_SIZE * cap, U64_SIZE)
VecBlock == Block(vec.ptr, VecLayout(vec.cap))

\* The smallest capacity a growing Vec<u64> takes: 4 (RawVec's
\* MIN_NON_ZERO_CAP) or, in a toolchain without it, 1.
MinCaps == {1, 4}

InitLargeVec ==
    /\ kind \in BuildKinds
    /\ InitHeap
    /\ \E m \in MinCaps : vec = [NoVec EXCEPT !.pc = "boot", !.min_cap = m]
    /\ fa = NoFrames
    /\ mapper = NoMapper /\ ih = NoInitHeap
    /\ lock = Free /\ calls = NoCalls
    /\ NoTasks

\* main: init_heap ends with the allocator's init(HEAP_START, HEAP_SIZE).
heap_allocation_main ==
    /\ vec.pc = "boot" /\ ~inited
    /\ LET r == global_init(kind, GlobalState, HEAP_START, HEAP_SIZE)
       IN /\ SetGlobalState(r.st)
          /\ panicked' = r.panic
    /\ heap' = [start |-> HEAP_START, size |-> HEAP_SIZE]
    /\ inited' = TRUE
    /\ vec' = [vec EXCEPT !.pc = "simple_allocation"]
    /\ UNCHANGED <<kind, vga, live, last, hist, fa, mapper, ih, lock, calls,
                   executor, keyboard, wakers, irq>>

\* simple_allocation: two Box<i32>, dropped in reverse order at the end.
simple_allocation ==
    /\ vec.pc = "simple_allocation" /\ ~panicked
    /\ \E a1 \in {global_alloc(kind, GlobalState, I32_LAYOUT)} :
       \E a2 \in {global_alloc(kind, a1.st, I32_LAYOUT)} :
       \E d2 \in {global_dealloc(kind, a2.st, a2.ptr, I32_LAYOUT)} :
       \E d1 \in {global_dealloc(kind, d2.st, a1.ptr, I32_LAYOUT)} :
       \E oom \in {NULL \in {a1.ptr, a2.ptr}} :
          /\ SetGlobalState(IF oom THEN a2.st ELSE d1.st)
          /\ panicked' = (TRUE \in {oom, a1.panic, a2.panic, d2.panic, d1.panic})
          /\ vec' = [vec EXCEPT !.pc = IF oom THEN "oom" ELSE "large_vec"]
    /\ UNCHANGED <<kind, vga, heap, inited, live, last, hist, fa, mapper, ih, lock, calls,
                   executor, keyboard, wakers, irq>>

\* One iteration of the loop of large_vec: vec.push(i).  A full vector grows
\* first (to twice its capacity, at least min_cap): the first buffer is
\* allocated, a later one reallocated, which is GlobalAlloc::realloc as the
\* trait provides it (no allocator overrides it): alloc the new size, copy,
\* dealloc the old buffer.  A null result ends in the alloc_error_handler's
\* panic.  The values are copied to the new buffer; when
\* the allocator hands out a buffer that overlaps the old one the copy's
\* outcome is not defined and the values may be lost.
large_vec_push ==
    /\ vec.pc = "large_vec" /\ ~panicked /\ vec.len < N_VALUES
    /\ \E full \in {vec.len = vec.cap} :
       \E new_cap \in {Max(Max(2 * vec.cap, vec.len + 1), vec.min_cap)} :
       \E a \in {IF full THEN global_alloc(kind, GlobalState, VecLayout(new_cap))
                 ELSE Res(GlobalState, vec.ptr, FALSE)} :
       \E oom \in {a.ptr = NULL} :
       \E moved \in {full /\ vec.cap > 0 /\ ~oom /\ ~a.panic} :
       \E r \in {IF moved
                 THEN global_dealloc(kind, a.st, vec.ptr, VecLayout(vec.cap))
                 ELSE Res(a.st, NULL, a.panic)} :
       \E apart \in {IF moved
                     THEN Disjoint(Block(a.ptr, VecLayout(new_cap)), VecBlock)
                     ELSE TRUE} :
          /\ SetGlobalState(r.st)
          /\ panicked' = (TRUE \in {oom, r.panic})
          /\ live' = IF TRUE \in {oom, ~full} THEN live
                     ELSE (live \ {VecBlock}) \cup {Block(a.ptr, VecLayout(new_cap))}
          /\ \E kept \in (IF apart THEN {vec.data}
                           ELSE {vec.data, [k \in 1..vec.len |-> 0]}) :
                vec' = IF oom THEN [vec EXCEPT !.pc = "oom"]
                       ELSE [vec EXCEPT !.ptr = a.ptr,
                                        !.cap = IF full THEN new_cap ELSE vec.cap,
                                        !.data = Append(kept, vec.len),
                                        !.len = vec.len + 1,
                                        !.disjoint = vec.disjoint /\ apart]
    /\ UNCHANGED <<kind, vga, heap, inited, last, hist, fa, mapper, ih, lock, calls,
                   executor, keyboard, wakers, irq>>

\* vec.iter().sum::<u64>(), one element at a time.
large_vec_sum ==
    /\ vec.pc = "large_vec" /\ ~panicked /\ vec.len = N_VALUES /\ vec.i < vec.len
    /\ vec' = [vec EXCEPT !.i = vec.i + 1, !.sum = vec.sum + vec.data[vec.i + 1]]
    /\ UNCHANGED <<kind, vga, heap, inited, panicked, bump, head, fsb, locked_heap, live, last, hist, fa, mapper, ih, lock, calls,
                   executor, keyboard, wakers, irq>>

\* The assert_eq of large_vec, then the vector is dropped.
large_vec_end ==
    /\ vec.pc = "large_vec" /\ ~panicked /\ vec.len = N_VALUES /\ vec.i = vec.len
    /\ \E equal \in {vec.sum = ((N_VALUES - 1) * N_VALUES) \div 2} :
       \E d \in {global_dealloc(kind, GlobalState, vec.ptr, VecLayout(vec.cap))} :
          /\ SetGlobalState(IF equal THEN d.st ELSE GlobalState)
          /\ panicked' = (TRUE \in {~equal, d.panic})
          /\ live' = IF equal THEN live \ {VecBlock} ELSE live
          /\ vec' = [vec EXCEPT !.pc = IF equal THEN "done" ELSE "assert_failed"]
    /\ UNCHANGED <<kind, vga, heap, inited, last, hist, fa, mapper, ih, lock, calls,
                   executor, keyboard, wakers, irq>>

NextLargeVec ==
    \/ heap_allocation_main
    \/ simple_allocation
    \/ large_vec_push
    \/ large_vec_sum
    \/ large_vec_end

SpecLargeVec == InitLargeVec /\ [][NextLargeVec]_vars

(***************************************************************************)
(* src/memory.rs: BootInfoFrameAllocator hands out the frames of the       *)
(* usable regions of the bootloader's memory map.                          *)
(***************************************************************************)
PAGE_SIZE == 4096

\* A memory region: the address range start_addr()..end_addr() and its type.
MemoryRegion(start, end, region_type) ==
    [start |-> start, end |-> end, region_type |-> region_type]

\* PhysFrame::containing_address: the frame is named by its start address.
containing_address(addr) == (addr \div PAGE_SIZE) * PAGE_SIZE

\* r.step_by(4096) on the range start..end, each address made a frame.
RECURSIVE region_frames(_, _)
region_frames(start, end) ==
    IF start >= end THEN << >>
    ELSE <<containing_address(start)>> \o region_frames(start + PAGE_SIZE, end)

\* A usable_frames that does not filter the regions by their type.
RECURSIVE usable_frames_unfiltered(_)
usable_frames_unfiltered(memory_map) ==
    IF memory_map = << >> THEN << >>
    ELSE LET r == Head(memory_map)
         IN region_frames(r.start, r.end) \o usable_frames_unfiltered(Tail(memory_map))

RECURSIVE usable_frames(_)
usable_frames(memory_map) ==
    IF memory_map = << >> THEN << >>
    ELSE LET r == Head(memory_map)
         IN (IF r.region_type = "Usable" THEN region_frames(r.start, r.end) ELSE << >>)
            \o usable_frames(Tail(memory_map))

BootInfoFrameAllocator_init(memory_map) ==
    [memory_map |-> memory_map, next |-> 0, returned |-> << >>]

\* An allocate_frame that leaves next as it is.
allocate_frame_fn_same(a) ==
    LET frames == usable_frames(a.memory_map)
        frame == IF a.next < Len(frames) THEN frames[a.next + 1] ELSE None
    IN [st |-> a, frame |-> frame]

\* allocate_frame: usable_frames().nth(self.next), then self.next += 1.
allocate_frame_fn(a) ==
    LET frames == usable_frames(a.memory_map)
        frame == IF a.next < Len(frames) THEN frames[a.next + 1] ELSE None
    IN [st |-> [a EXCEPT !.next = a.next + 1], frame |-> frame]

\* Memory maps of at most MaxRegions regions, which start and end on a half
\* page below MaxHalfPages half pages; the allocator is called at most
\* MaxFrameCalls times.
MaxRegions == 2
MaxHalfPages == 6
MaxFrameCalls == 5

HalfPages == {h * (PAGE_SIZE \div 2) : h \in 0..MaxHalfPages}
MemoryRegions ==
    {MemoryRegion(s, e, t) : s \in HalfPages, e \in HalfPages, t \in {"Usable", "InUse"}}
MemoryMaps ==
    UNION {[1..n -> {r \in MemoryRegions : r.start < r.end}] : n \in 0..MaxRegions}

\* The memory map the bootloader passes: every region starts and ends on a
\* frame boundary and no two usable regions overlap.
FrameAligned(memory_map) ==
    \A i \in 1..Len(memory_map) :
        memory_map[i].region_type = "Usable" =>
            /\ memory_map[i].start % PAGE_SIZE = 0
            /\ memory_map[i].end % PAGE_SIZE = 0
NonOverlapping(memory_map) ==
    \A i, j \in 1..Len(memory_map) :
        (i < j /\ memory_map[i].region_type = "Usable"
               /\ memory_map[j].region_type = "Usable") =>
            (memory_map[i].end <= memory_map[j].start
                \/ memory_map[j].end <= memory_map[i].start)

\* The kernel creates the frame allocator before it initialises the heap.
InitFrames ==
    /\ kind = "locked_heap"
    /\ InitHeap
    /\ vec = NoVec
    /\ \E memory_map \in MemoryMaps : fa = BootInfoFrameAllocator_init(memory_map)
    /\ mapper = NoMapper /\ ih = NoInitHeap
    /\ lock = Free /\ calls = NoCalls
    /\ NoTasks

allocate_frame ==
    /\ Len(fa.returned) < MaxFrameCalls
    /\ LET r == allocate_frame_fn(fa)
       IN fa' = [r.st EXCEPT !.returned = Append(fa.returned, r.frame)]
    /\ UNCHANGED <<kind, vga, heap, inited, panicked, bump, head, fsb, live, last, hist, locked_heap, vec,
                   mapper, ih, lock, calls,
                   executor, keyboard, wakers, irq>>

NextFrames == allocate_frame

SpecFrames == InitFrames /\ [][NextFrames]_vars

(***************************************************************************)
(* src/allocator.rs: init_heap maps every page of the heap to a frame of   *)
(* the frame allocator, then initialises the global allocator.             *)
(***************************************************************************)
\* Page::containing_address, a page named by its number.
page_of(addr) == addr \div PAGE_SIZE

\* Page::range_inclusive(heap_start_page, heap_end_page)
heap_start_page == page_of(HEAP_START)
heap_end_page == page_of(HEAP_START + HEAP_SIZE - 1)
\* A range that leaves out the page of the last byte of the heap.
page_range_exclusive == heap_start_page..(heap_end_page - 1)

page_range == heap_start_page..heap_end_page

HEAP_FLAGS == {"PRESENT", "WRITABLE"}

\* A page table entry is one of 512 of its table: the tables above a page,
\* named by their level and by the page number without the index bits below.
ENTRY_COUNT == 512
TableOf(level, page) ==
    <<level, page \div (IF level = 1 THEN ENTRY_COUNT
                        ELSE IF level = 2 THEN ENTRY_COUNT * ENTRY_COUNT
                        ELSE ENTRY_COUNT * ENTRY_COUNT * ENTRY_COUNT)>>

\* Mapper::map_to: the level 3, 2 and 1 tables above the page are created
\* where missing, each in a frame of the frame allocator (none left:
\* FrameAllocationFailed, the tables created so far stay); then the entry of
\* the page must be unused (PageAlreadyMapped) and is set to frame and flags.
RECURSIVE create_tables(_, _, _, _)
create_tables(m, a, page, level) ==
    IF level = 0 THEN [mapper |-> m, fa |-> a, err |-> "none"]
    ELSE IF TableOf(level, page) \in m.tables
    THEN create_tables(m, a, page, level - 1)
    ELSE LET r == allocate_frame_fn(a)
             a2 == [r.st EXCEPT !.returned = Append(a.returned, r.frame)]
         IN IF r.frame = None
            THEN [mapper |-> m, fa |-> a2, err |-> "FrameAllocationFailed"]
            ELSE create_tables([m EXCEPT !.tables = @ \cup {TableOf(level, page)},
                                         !.table_frames = @ \cup {r.frame}],
                               a2, page, level - 1)

map_to(m, a, page, frame, flags) ==
    LET t == create_tables(m, a, page, 3)
    IN IF t.err # "none" THEN t
       ELSE IF \E e \in t.mapper.entries : e.page = page
       THEN [t EXCEPT !.err = "PageAlreadyMapped"]
       ELSE [t EXCEPT !.mapper.entries =
                          @ \cup {[page |-> page, frame |-> frame, flags |-> flags]}]

\* The memory maps of the boot: regions that start and end at these frame
\* numbers, frame-aligned and non-overlapping as the bootloader makes them.
BootFrames == {0, 2, 4, 26, 28, 30}
BootRegions ==
    {MemoryRegion(s * PAGE_SIZE, e * PAGE_SIZE, t) :
        s \in BootFrames, e \in BootFrames, t \in {"Usable", "InUse"}}
BootMemoryMaps ==
    {mm \in UNION {[1..n -> {r \in BootRegions : r.start < r.end}] : n \in 0..MaxRegions} :
        NonOverlapping(mm)}

\* The frame of the VGA text buffer, mapped before the kernel starts.
VGA_FRAME == 753664

\* The page tables init_heap is given: the tables above the first heap page
\* exist down to some level; with all of them, a page of the heap range may
\* be mapped already.
BootMappers ==
    {[NoMapper EXCEPT !.tables = {TableOf(l, heap_start_page) : l \in (low + 1)..3}] :
        low \in 0..3}
    \cup {[NoMapper EXCEPT
              !.tables = {TableOf(l, heap_start_page) : l \in 1..3},
              !.entries = {[page |-> p, frame |-> VGA_FRAME, flags |-> HEAP_FLAGS]}] :
           p \in {heap_start_page, heap_start_page + 3, heap_end_page}}

\* kernel_main up to the call of init_heap.
InitInitHeap ==
    /\ kind = "locked_heap"
    /\ InitHeap
    /\ vec = NoVec
    /\ \E memory_map \in BootMemoryMaps : fa = BootInfoFrameAllocator_init(memory_map)
    /\ mapper \in BootMappers
    /\ ih = [NoInitHeap EXCEPT !.pc = "pages", !.page = heap_start_page]
    /\ lock = Free /\ calls = NoCalls
    /\ NoTasks

\* A loop that goes on to the next page when a page could not be mapped.
init_heap_page_skip ==
    /\ ih.pc = "pages" /\ ih.page \in page_range
    /\ \E r \in {allocate_frame_fn(fa)} :
       \E a \in {[r.st EXCEPT !.returned = Append(fa.returned, r.frame)]} :
       \E t \in {IF r.frame = None
                 THEN [mapper |-> mapper, fa |-> a, err |-> "FrameAllocationFailed"]
                 ELSE map_to(mapper, a, ih.page, r.frame, HEAP_FLAGS)} :
          /\ fa' = t.fa
          /\ mapper' = t.mapper
          /\ ih' = [ih EXCEPT !.page = @ + 1, !.attempted = Append(@, ih.page)]
    /\ UNCHANGED <<kind, vga, heap, inited, panicked, bump, head, fsb, locked_heap, live,
                   last, hist, vec, lock, calls,
                   executor, keyboard, wakers, irq>>

\* One turn of the loop over page_range: allocate_frame, then map_to; either
\* failing returns its error from init_heap.
init_heap_page ==
    /\ ih.pc = "pages" /\ ih.page \in page_range
    /\ \E r \in {allocate_frame_fn(fa)} :
       \E a \in {[r.st EXCEPT !.returned = Append(fa.returned, r.frame)]} :
       \E t \in {IF r.frame = None
                 THEN [mapper |-> mapper, fa |-> a, err |-> "FrameAllocationFailed"]
                 ELSE map_to(mapper, a, ih.page, r.frame, HEAP_FLAGS)} :
          /\ fa' = t.fa
          /\ mapper' = t.mapper
          /\ ih' = IF t.err # "none"
                   THEN [ih EXCEPT !.pc = "returned", !.result = t.err,
                                   !.attempted = Append(@, ih.page)]
                   ELSE [ih EXCEPT !.page = @ + 1, !.attempted = Append(@, ih.page)]
    /\ UNCHANGED <<kind, vga, heap, inited, panicked, bump, head, fsb, locked_heap, live,
                   last, hist, vec, lock, calls,
                   executor, keyboard, wakers, irq>>

\* After the loop: ALLOCATOR.lock().init(HEAP_START, HEAP_SIZE), then Ok(()).
init_heap_init ==
    /\ ih.pc = "pages" /\ ih.page \notin page_range
    /\ \E r \in {global_init(kind, GlobalState, HEAP_START, HEAP_SIZE)} :
          /\ SetGlobalState(r.st)
          /\ panicked' = r.panic
    /\ heap' = [start |-> HEAP_START, size |-> HEAP_SIZE]
    /\ inited' = TRUE
    /\ ih' = [ih EXCEPT !.pc = "returned", !.result = "Ok"]
    /\ UNCHANGED <<kind, vga, live, last, hist, vec, fa, mapper, lock, calls,
                   executor, keyboard, wakers, irq>>

NextInitHeap ==
    \/ init_heap_page
    \/ init_heap_init

SpecInitHeap == InitInitHeap /\ [][NextInitHeap]_vars

(***************************************************************************)
(* The Locked wrapper: every alloc and dealloc takes the spin lock of the  *)
(* allocator, works on the allocator under the guard, and drops the guard  *)
(* when it returns.  Two execution contexts call the allocator; a step of  *)
(* one may come between any two steps of the other.                        *)
(***************************************************************************)
MaxCalls == 2

\* spin::Mutex::lock spins until the lock is free and then takes it; the
\* guard it returns gives the lock back when it is dropped.
Locked_lock(c) == lock = Free /\ lock' = c
MutexGuard_drop(c) == lock' = IF lock = c THEN Free ELSE lock

\* What the contexts ask for: two layouts the small heap serves, one larger
\* than the heap, and one whose padded size has no usize.
LockedLayouts ==
    {USIZE_LAYOUT, Layout(24, 8), Layout(SmallHeap + 8, 8), Layout(ISIZE_MAX, 1)}

InitLocked ==
    /\ kind \in Kinds
    /\ InitHeap
    /\ vec = NoVec /\ fa = NoFrames
    /\ mapper = NoMapper /\ ih = NoInitHeap
    /\ lock = Free
    /\ calls = NoCalls
    /\ NoTasks

\* ALLOCATOR.lock().init(heap_start, heap_size): one statement, the guard a
\* temporary of it, run once before anything allocates.
locked_init(c) ==
    /\ ~inited /\ CanCall
    /\ lock = Free
    /\ \E r \in {global_init(kind, GlobalState, HEAP_START, SmallHeap)} :
          /\ SetGlobalState(r.st)
          /\ panicked' = r.panic
    /\ heap' = [start |-> HEAP_START, size |-> SmallHeap]
    /\ inited' = TRUE
    /\ UNCHANGED <<kind, vga, live, last, hist, vec, fa, mapper, ih, lock, calls,
                   executor, keyboard, wakers, irq>>

\* A context enters GlobalAlloc::alloc.  The linked list allocator adjusts the
\* layout first, which touches no allocator state and panics when the padded
\* size overflows; the other two start with the lock.
alloc_call(c) ==
    /\ inited /\ CanCall
    /\ calls[c].pc = "idle" /\ calls[c].started < MaxCalls
    /\ Cardinality(live) < MaxLive
    /\ \E layout \in LockedLayouts :
          IF kind = "linked_list" /\ ~size_align(layout).ok
          THEN /\ panicked' = TRUE
               /\ calls' = [calls EXCEPT ![c] = [@ EXCEPT !.pc = "halt", !.op = "alloc",
                                                          !.layout = layout,
                                                          !.started = @ + 1]]
          ELSE /\ panicked' = panicked
               /\ calls' = [calls EXCEPT ![c] = [@ EXCEPT !.pc = "lock", !.op = "alloc",
                                                          !.layout = layout,
                                                          !.started = @ + 1]]
    /\ UNCHANGED <<kind, vga, heap, inited, bump, head, fsb, locked_heap, live, last, hist,
                   vec, fa, mapper, ih, lock,
                   executor, keyboard, wakers, irq>>

\* A context enters GlobalAlloc::dealloc with a block it holds.
dealloc_call(c) ==
    /\ inited /\ CanCall
    /\ calls[c].pc = "idle" /\ calls[c].started < MaxCalls
    /\ \E b \in live :
          /\ live' = live \ {b}
          /\ calls' = [calls EXCEPT ![c] = [@ EXCEPT !.pc = "lock", !.op = "dealloc",
                                                     !.layout = LayoutOf(b),
                                                     !.ptr = b.ptr,
                                                     !.started = @ + 1]]
    /\ UNCHANGED <<kind, vga, heap, inited, panicked, bump, head, fsb, locked_heap, last,
                   hist, vec, fa, mapper, ih, lock,
                   executor, keyboard, wakers, irq>>

\* A call that goes on to the allocator without the lock.
call_lock_skip(c) ==
    /\ CanCall
    /\ calls[c].pc = "lock"
    /\ calls' = [calls EXCEPT ![c] = [@ EXCEPT !.pc = "body"]]
    /\ UNCHANGED <<kind, vga, heap, inited, panicked, bump, head, fsb, locked_heap, live,
                   last, hist, vec, fa, mapper, ih, lock,
                   executor, keyboard, wakers, irq>>

\* let mut allocator = self.lock(): the call spins until it has the lock.
call_lock(c) ==
    /\ CanCall
    /\ calls[c].pc = "lock"
    /\ Locked_lock(c)
    /\ calls' = [calls EXCEPT ![c] = [@ EXCEPT !.pc = "body"]]
    /\ UNCHANGED <<kind, vga, heap, inited, panicked, bump, head, fsb, locked_heap, live,
                   last, hist, vec, fa, mapper, ih,
                   executor, keyboard, wakers, irq>>

\* The body of alloc, run on the allocator behind the guard.  guarded records
\* whether the context held the lock while it worked on the allocator.  A
\* panic inside the body halts the kernel with the guard never dropped.
alloc_body(c) ==
    /\ CanCall
    /\ calls[c].pc = "body" /\ calls[c].op = "alloc"
    /\ \E r \in {global_alloc(kind, GlobalState, calls[c].layout)} :
          /\ SetGlobalState(r.st)
          /\ panicked' = r.panic
          /\ calls' = [calls EXCEPT ![c] = [@ EXCEPT !.pc = IF r.panic THEN "halt"
                                                            ELSE "return",
                                                     !.ptr = r.ptr,
                                                     !.guarded = (lock = c)]]
    /\ UNCHANGED <<kind, vga, heap, inited, live, last, hist, vec, fa, mapper, ih, lock,
                   executor, keyboard, wakers, irq>>

\* The body of dealloc.
dealloc_body(c) ==
    /\ CanCall
    /\ calls[c].pc = "body" /\ calls[c].op = "dealloc"
    /\ \E r \in {global_dealloc(kind, GlobalState, calls[c].ptr, calls[c].layout)} :
          /\ SetGlobalState(r.st)
          /\ panicked' = r.panic
          /\ calls' = [calls EXCEPT ![c] = [@ EXCEPT !.pc = IF r.panic THEN "halt"
                                                            ELSE "return",
                                                     !.guarded = (lock = c)]]
    /\ UNCHANGED <<kind, vga, heap, inited, live, last, hist, vec, fa, mapper, ih, lock,
                   executor, keyboard, wakers, irq>>

\* The call returns, with a pointer or with null, and the guard goes out of
\* scope.
call_return(c) ==
    /\ CanCall
    /\ calls[c].pc = "return"
    /\ MutexGuard_drop(c)
    /\ live' = IF calls[c].op = "alloc" /\ calls[c].ptr # NULL
               THEN live \cup {Block(calls[c].ptr, calls[c].layout)}
               ELSE live
    /\ calls' = [calls EXCEPT ![c] = [@ EXCEPT !.pc = "idle"]]
    /\ UNCHANGED <<kind, vga, heap, inited, panicked, bump, head, fsb, locked_heap, last,
                   hist, vec, fa, mapper, ih,
                   executor, keyboard, wakers, irq>>

NextLocked ==
    \E c \in Contexts :
        \/ locked_init(c)
        \/ alloc_call(c)
        \/ dealloc_call(c)
        \/ call_lock(c)
        \/ alloc_body(c)
        \/ dealloc_body(c)
        \/ call_return(c)

SpecLocked == InitLocked /\ [][NextLocked]_vars

(***************************************************************************)
(* The executor and the interrupt handlers.  kernel_main builds the        *)
(* Executor, spawns example_task and print_keypresses and calls run();     *)
(* interrupts are enabled from init() on, so a handler may run between any *)
(* two steps of main, also while main is inside the global allocator and   *)
(* holds its lock.  A handler runs with interrupts disabled, to its end.   *)
(* A heap operation of main is two steps: main_lock takes the lock of the  *)
(* LockedHeap, the step that follows does the work and gives it back.      *)
(***************************************************************************)
\* How many interrupts are handled; the capacities of SCANCODE_QUEUE and of
\* task_queue, both ArrayQueue::new(100) in the kernel, scaled down: the two
\* tasks fill task_queue as 100 tasks would.
MaxInterrupts == 4
ScancodeCap == 2
TaskQueueCap == 2
Scancodes == {2, 30}
Main == "main"

\* The steps of main that call into the global allocator.
HeapPcs == {"new", "spawn", "waker_new", "stream_new", "ready"}

\* Arc<TaskWaker>: a clone adds a strong reference, a drop takes one away and
\* frees the allocation with the last one.
Arc_clone(w, t) == [w EXCEPT ![t] = @ + 1]
Arc_drop(w, t) == [w EXCEPT ![t] = @ - 1]
DropsLast(w, t) == w[t] = 1

\* ArrayQueue::push on a queue of the given capacity.
ArrayQueue_push(q, cap, x) ==
    IF Len(q) < cap THEN [ok |-> TRUE, queue |-> Append(q, x)]
    ELSE [ok |-> FALSE, queue |-> q]

InitInterrupts ==
    /\ kind = "locked_heap"
    /\ InitHeap
    /\ vec = NoVec /\ fa = NoFrames
    /\ mapper = NoMapper /\ ih = NoInitHeap
    /\ lock = Free
    /\ calls = NoCalls
    /\ executor = NoExecutor /\ keyboard = NoKeyboard /\ wakers = NoWakers /\ irq = NoIrq
    /\ vga = NoVga

Running == ~panicked /\ ~irq.deadlock

\* Main enters alloc or dealloc of the global allocator and takes its lock.
main_lock ==
    /\ Running
    /\ executor.pc \in HeapPcs /\ lock = Free
    /\ lock' = Main
    /\ UNCHANGED <<kind, vga, heap, inited, panicked, bump, head, fsb, locked_heap, live,
                   last, hist, vec, fa, mapper, ih, calls, executor, keyboard, wakers,
                   irq>>

\* Executor::new: the task queue behind an Arc.
Executor_new ==
    /\ Running
    /\ executor.pc = "new" /\ lock = Main
    /\ lock' = Free
    /\ executor' = [executor EXCEPT !.pc = "spawn"]
    /\ UNCHANGED <<kind, vga, heap, inited, panicked, bump, head, fsb, locked_heap, live,
                   last, hist, vec, fa, mapper, ih, calls, keyboard, wakers, irq>>

\* Executor::spawn: the task goes into tasks and its id into task_queue;
\* example_task first, print_keypresses second.
Executor_spawn ==
    /\ Running
    /\ executor.pc = "spawn" /\ lock = Main
    /\ lock' = Free
    /\ \E id \in {Cardinality(executor.tasks) + 1} :
       \E r \in {ArrayQueue_push(executor.task_queue, TaskQueueCap, id)} :
          /\ panicked' = ~r.ok
          /\ executor' = [executor EXCEPT !.tasks = @ \cup {id},
                                          !.task_queue = r.queue,
                                          !.pc = IF id = PRINT_KEYPRESSES THEN "pop"
                                                 ELSE "spawn"]
    /\ UNCHANGED <<kind, vga, heap, inited, bump, head, fsb, locked_heap, live,
                   last, hist, vec, fa, mapper, ih, calls, keyboard, wakers, irq>>

\* run_ready_tasks: while let Ok(task_id) = task_queue.pop(); an id whose task
\* is gone is skipped (skipped remembers that it happened); with the queue
\* empty run() goes on to sleep_if_idle.
run_ready_tasks_pop ==
    /\ Running
    /\ executor.pc = "pop"
    /\ executor' =
         IF executor.task_queue = << >>
         THEN [executor EXCEPT !.pc = "sleep", !.task_id = NoTask]
         ELSE [executor EXCEPT !.task_queue = Tail(@),
                               !.task_id = Head(executor.task_queue),
                               !.pc = IF Head(executor.task_queue) \in executor.tasks
                                      THEN "waker" ELSE "pop",
                               !.skipped = @ \/ Head(executor.task_queue) \notin executor.tasks]
    /\ UNCHANGED <<kind, vga, heap, inited, panicked, bump, head, fsb, locked_heap, live,
                   last, hist, vec, fa, mapper, ih, lock, calls, keyboard, wakers, irq>>

\* waker_cache.entry(task_id): a cached waker is used as it is.
run_ready_tasks_waker ==
    /\ Running
    /\ executor.pc = "waker"
    /\ executor' = [executor EXCEPT !.pc = IF executor.task_id \in executor.waker_cache
                                           THEN "poll" ELSE "waker_new"]
    /\ UNCHANGED <<kind, vga, heap, inited, panicked, bump, head, fsb, locked_heap, live,
                   last, hist, vec, fa, mapper, ih, lock, calls, keyboard, wakers, irq>>

\* or_insert_with(|| TaskWaker::new(..)): Arc::new allocates the waker and
\* the cache holds its first reference.
TaskWaker_new ==
    /\ Running
    /\ executor.pc = "waker_new" /\ lock = Main
    /\ lock' = Free
    /\ wakers' = [wakers EXCEPT ![executor.task_id] = 1]
    /\ executor' = [executor EXCEPT !.waker_cache = @ \cup {executor.task_id},
                                    !.pc = "poll"]
    /\ UNCHANGED <<kind, vga, heap, inited, panicked, bump, head, fsb, locked_heap, live,
                   last, hist, vec, fa, mapper, ih, calls, keyboard, irq>>

\* task.poll: example_task is ready at its first poll; print_keypresses
\* creates its ScancodeStream at its first poll and then is in poll_next.
Task_poll ==
    /\ Running
    /\ executor.pc = "poll"
    /\ executor' = [executor EXCEPT !.pc = IF executor.task_id = EXAMPLE_TASK THEN "ready"
                                           ELSE IF keyboard.init THEN "pop1"
                                           ELSE "stream_new"]
    /\ UNCHANGED <<kind, vga, heap, inited, panicked, bump, head, fsb, locked_heap, live,
                   last, hist, vec, fa, mapper, ih, lock, calls, keyboard, wakers, irq>>

\* A Poll::Ready arm that removes the task and leaves its waker in the cache.
run_ready_tasks_ready_keeps_waker ==
    /\ Running
    /\ executor.pc = "ready" /\ lock = Main
    /\ lock' = Free
    /\ executor' = [executor EXCEPT !.tasks = @ \ {executor.task_id}, !.pc = "pop"]
    /\ UNCHANGED <<kind, vga, heap, inited, panicked, bump, head, fsb, locked_heap, live,
                   last, hist, vec, fa, mapper, ih, calls, keyboard, irq, wakers>>

\* Poll::Ready: tasks.remove and waker_cache.remove; the boxed future is
\* freed and the cached waker dropped, here in main.
run_ready_tasks_ready ==
    /\ Running
    /\ executor.pc = "ready" /\ lock = Main
    /\ lock' = Free
    /\ wakers' = Arc_drop(wakers, executor.task_id)
    /\ executor' = [executor EXCEPT !.tasks = @ \ {executor.task_id},
                                    !.waker_cache = @ \ {executor.task_id},
                                    !.pc = "pop"]
    /\ UNCHANGED <<kind, vga, heap, inited, panicked, bump, head, fsb, locked_heap, live,
                   last, hist, vec, fa, mapper, ih, calls, keyboard, irq>>

\* ScancodeStream::new: SCANCODE_QUEUE is initialised with ArrayQueue::new.
ScancodeStream_new ==
    /\ Running
    /\ executor.pc = "stream_new" /\ lock = Main
    /\ lock' = Free
    /\ keyboard' = [keyboard EXCEPT !.init = TRUE]
    /\ executor' = [executor EXCEPT !.pc = "pop1"]
    /\ UNCHANGED <<kind, vga, heap, inited, panicked, bump, head, fsb, locked_heap, live,
                   last, hist, vec, fa, mapper, ih, calls, wakers, irq>>

\* poll_next, fast path: a scancode in the queue is returned at once, and the
\* loop of print_keypresses asks for the next one.
poll_next_pop ==
    /\ Running
    /\ executor.pc = "pop1"
    /\ keyboard' = [keyboard EXCEPT
                       !.queue = IF @ = << >> THEN @ ELSE Tail(@),
                       !.delivered = IF keyboard.queue = << >> THEN @
                                     ELSE Append(@, Head(keyboard.queue))]
    /\ executor' = [executor EXCEPT !.pc = IF keyboard.queue = << >> THEN "register"
                                           ELSE "pop1"]
    /\ UNCHANGED <<kind, vga, heap, inited, panicked, bump, head, fsb, locked_heap, live,
                   last, hist, vec, fa, mapper, ih, lock, calls, wakers, irq>>

\* WAKER.register(&cx.waker()): WAKER keeps a clone of the task's waker.
poll_next_register ==
    /\ Running
    /\ executor.pc = "register"
    /\ wakers' = IF keyboard.WAKER = executor.task_id THEN wakers
                 ELSE Arc_clone(wakers, executor.task_id)
    /\ keyboard' = [keyboard EXCEPT !.WAKER = executor.task_id]
    /\ executor' = [executor EXCEPT !.pc = "pop2"]
    /\ UNCHANGED <<kind, vga, heap, inited, panicked, bump, head, fsb, locked_heap, live,
                   last, hist, vec, fa, mapper, ih, lock, calls, irq>>

\* A second pop that drops the task's cached waker when the poll is pending.
poll_next_second_pop_uncached ==
    /\ Running
    /\ executor.pc = "pop2"
    /\ IF keyboard.queue = << >>
       THEN /\ executor' = [executor EXCEPT !.pc = "pop",
                                            !.waker_cache = @ \ {executor.task_id}]
            /\ wakers' = Arc_drop(wakers, executor.task_id)
            /\ keyboard' = keyboard
       ELSE /\ executor' = [executor EXCEPT !.pc = "pop1"]
            /\ wakers' = IF keyboard.WAKER = NoTask THEN wakers
                         ELSE Arc_drop(wakers, keyboard.WAKER)
            /\ keyboard' = [keyboard EXCEPT
                               !.queue = Tail(@), !.WAKER = NoTask,
                               !.delivered = Append(@, Head(keyboard.queue))]
    /\ UNCHANGED <<kind, vga, heap, inited, panicked, bump, head, fsb, locked_heap, live,
                   last, hist, vec, fa, mapper, ih, lock, calls, irq>>

\* A poll_next that returns Pending after registering the waker, without
\* looking at the queue a second time.
poll_next_second_pop_blind ==
    /\ Running
    /\ executor.pc = "pop2"
    /\ executor' = [executor EXCEPT !.pc = "pop"]
    /\ UNCHANGED <<kind, vga, heap, inited, panicked, bump, head, fsb, locked_heap, live,
                   last, hist, vec, fa, mapper, ih, lock, calls, irq, wakers, keyboard>>

\* The second queue.pop(): with a scancode, WAKER.take() drops the registered
\* clone and the scancode is returned; without one the poll is Pending, the
\* waker stays in WAKER and in the cache, and run_ready_tasks goes on.
poll_next_second_pop ==
    /\ Running
    /\ executor.pc = "pop2"
    /\ IF keyboard.queue = << >>
       THEN /\ executor' = [executor EXCEPT !.pc = "pop"]
            /\ wakers' = wakers
            /\ keyboard' = keyboard
       ELSE /\ executor' = [executor EXCEPT !.pc = "pop1"]
            /\ wakers' = IF keyboard.WAKER = NoTask THEN wakers
                         ELSE Arc_drop(wakers, keyboard.WAKER)
            /\ keyboard' = [keyboard EXCEPT
                               !.queue = Tail(@), !.WAKER = NoTask,
                               !.delivered = Append(@, Head(keyboard.queue))]
    /\ UNCHANGED <<kind, vga, heap, inited, panicked, bump, head, fsb, locked_heap, live,
                   last, hist, vec, fa, mapper, ih, lock, calls, irq>>

\* sleep_if_idle: task_queue.is_empty() is tested with interrupts enabled;
\* when it was empty the hlt instruction comes next, else run() loops.
sleep_if_idle ==
    /\ Running
    /\ executor.pc = "sleep"
    /\ executor' = [executor EXCEPT !.pc = IF executor.task_queue = << >> THEN "hlt_next"
                                           ELSE "pop"]
    /\ UNCHANGED <<kind, vga, heap, inited, panicked, bump, head, fsb, locked_heap, live,
                   last, hist, vec, fa, mapper, ih, lock, calls, keyboard, wakers, irq>>

\* x86_64::instructions::hlt(): the CPU sleeps until the next interrupt.
hlt ==
    /\ Running
    /\ executor.pc = "hlt_next"
    /\ executor' = [executor EXCEPT !.pc = "hlt"]
    /\ UNCHANGED <<kind, vga, heap, inited, panicked, bump, head, fsb, locked_heap, live,
                   last, hist, vec, fa, mapper, ih, lock, calls, keyboard, wakers, irq>>

\* What every handler leaves behind: one more interrupt handled, by which
\* handler, whether main was inside the allocator, and a halted CPU running
\* again.
Handled(i, handler) ==
    [i EXCEPT !.count = @ + 1, !.last = handler, !.in_lock = (@ \/ lock # Free)]
Resume(e) == [e EXCEPT !.pc = IF @ = "hlt" THEN "pop" ELSE @]

\* timer_interrupt_handler: print!(".") and the end-of-interrupt.
timer_interrupt_handler ==
    /\ Running /\ irq.count < MaxInterrupts
    /\ irq' = Handled(irq, "timer")
    /\ executor' = Resume(executor)
    /\ UNCHANGED <<kind, vga, heap, inited, panicked, bump, head, fsb, locked_heap, live,
                   last, hist, vec, fa, mapper, ih, lock, calls, keyboard, wakers>>

\* keyboard_interrupt_handler: reads the scancode from port 0x60, prints the
\* digit keys and signals the end of the interrupt.
keyboard_interrupt_handler ==
    /\ Running /\ irq.count < MaxInterrupts
    /\ irq' = Handled(irq, "keyboard")
    /\ executor' = Resume(executor)
    /\ UNCHANGED <<kind, vga, heap, inited, panicked, bump, head, fsb, locked_heap, live,
                   last, hist, vec, fa, mapper, ih, lock, calls, keyboard, wakers>>

\* WAKER.wake(), run by add_scancode: the registered waker is taken out of
\* WAKER, wake(self: Arc<Self>) pushes the task id and drops the Arc at its
\* end.  Dropping the last reference frees the waker inside the handler, and
\* with the allocator lock held by the interrupted code that never ends.
WAKER_wake(e, k, w, i) ==
    IF k.WAKER = NoTask
    THEN [executor |-> e, keyboard |-> k, wakers |-> w, irq |-> i, panic |-> FALSE]
    ELSE LET r == ArrayQueue_push(e.task_queue, TaskQueueCap, k.WAKER)
         IN [executor |-> [e EXCEPT !.task_queue = r.queue],
             keyboard |-> [k EXCEPT !.WAKER = NoTask],
             wakers |-> Arc_drop(w, k.WAKER),
             irq |-> [i EXCEPT !.woke = TRUE,
                               !.heap_ops = IF DropsLast(w, k.WAKER) THEN @ + 1 ELSE @,
                               !.deadlock = DropsLast(w, k.WAKER) /\ lock # Free],
             panic |-> ~r.ok]

\* An add_scancode that wakes the waker whether or not the push succeeded.
add_scancode_wake_always ==
    /\ Running /\ irq.count < MaxInterrupts
    /\ \E scancode \in Scancodes :
       \E p \in {ArrayQueue_push(keyboard.queue, ScancodeCap, scancode)} :
          IF keyboard.init /\ p.ok
          THEN \E r \in {WAKER_wake(executor,
                                    [keyboard EXCEPT !.queue = p.queue,
                                                     !.pushed = Append(@, scancode)],
                                    wakers, Handled(irq, "add_scancode"))} :
                  /\ executor' = Resume(r.executor)
                  /\ keyboard' = r.keyboard
                  /\ wakers' = r.wakers
                  /\ irq' = r.irq
                  /\ panicked' = r.panic
          ELSE \E r \in {WAKER_wake(executor, [keyboard EXCEPT !.dropped = @ + 1],
                                    wakers, Handled(irq, "add_scancode"))} :
                  /\ executor' = Resume(r.executor)
                  /\ keyboard' = r.keyboard
                  /\ wakers' = r.wakers
                  /\ irq' = r.irq
                  /\ panicked' = r.panic
    /\ UNCHANGED <<kind, vga, heap, inited, bump, head, fsb, locked_heap, live,
                   last, hist, vec, fa, mapper, ih, lock, calls>>

\* add_scancode, called from the keyboard interrupt: push the scancode and
\* wake the waker; a warning is printed when the queue is missing or full.
add_scancode ==
    /\ Running /\ irq.count < MaxInterrupts
    /\ \E scancode \in Scancodes :
       \E p \in {ArrayQueue_push(keyboard.queue, ScancodeCap, scancode)} :
          IF keyboard.init /\ p.ok
          THEN \E r \in {WAKER_wake(executor,
                                    [keyboard EXCEPT !.queue = p.queue,
                                                     !.pushed = Append(@, scancode)],
                                    wakers, Handled(irq, "add_scancode"))} :
                  /\ executor' = Resume(r.executor)
                  /\ keyboard' = r.keyboard
                  /\ wakers' = r.wakers
                  /\ irq' = r.irq
                  /\ panicked' = r.panic
          ELSE /\ irq' = Handled(irq, "add_scancode")
               /\ executor' = Resume(executor)
               /\ keyboard' = [keyboard EXCEPT !.dropped = @ + 1]
               /\ UNCHANGED <<wakers, panicked>>
    /\ UNCHANGED <<kind, vga, heap, inited, bump, head, fsb, locked_heap, live,
                   last, hist, vec, fa, mapper, ih, lock, calls>>

NextInterrupts ==
    \/ main_lock
    \/ Executor_new
    \/ Executor_spawn
    \/ run_ready_tasks_pop
    \/ run_ready_tasks_waker
    \/ TaskWaker_new
    \/ Task_poll
    \/ run_ready_tasks_ready
    \/ ScancodeStream_new
    \/ poll_next_pop
    \/ poll_next_register
    \/ poll_next_second_pop
    \/ sleep_if_idle
    \/ hlt
    \/ timer_interrupt_handler
    \/ keyboard_interrupt_handler
    \/ add_scancode

SpecInterrupts == InitInterrupts /\ [][NextInterrupts]_vars

(***************************************************************************)
(* The executor with tasks of any kind.  Executor::spawn takes any future: *)
(* a poll returns Ready or Pending, and a future that is pending has kept  *)
(* a clone of the waker it was polled with for whoever will wake it.  An   *)
(* interrupt handler that holds such a clone may wake the task at any      *)
(* time, any number of times, also after the task has finished.            *)
(***************************************************************************)
\* A clone of task t's waker exists outside the waker cache.
Held(t) == wakers[t] > (IF t \in executor.waker_cache THEN 1 ELSE 0)

\* task.poll returns Poll::Ready(()).
Task_poll_ready ==
    /\ Running
    /\ executor.pc = "poll"
    /\ executor' = [executor EXCEPT !.pc = "ready"]
    /\ UNCHANGED <<kind, vga, heap, inited, panicked, bump, head, fsb, locked_heap, live,
                   last, hist, vec, fa, mapper, ih, lock, calls, keyboard, wakers, irq>>

\* task.poll returns Poll::Pending; a clone of the waker stays behind.
Task_poll_pending ==
    /\ Running
    /\ executor.pc = "poll"
    /\ wakers' = IF Held(executor.task_id) THEN wakers
                 ELSE Arc_clone(wakers, executor.task_id)
    /\ executor' = [executor EXCEPT !.pc = "pop"]
    /\ UNCHANGED <<kind, vga, heap, inited, panicked, bump, head, fsb, locked_heap, live,
                   last, hist, vec, fa, mapper, ih, lock, calls, keyboard, irq>>

\* An interrupt handler wakes task t through the clone it holds: wake_by_ref
\* keeps the clone, wake consumes it.  Both run wake_task, which pushes the
\* task id; dropping the last reference frees the waker in the handler.
waker_interrupt ==
    /\ Running /\ irq.count < MaxInterrupts
    /\ \E t \in Tasks, consume \in BOOLEAN :
       \E r \in {ArrayQueue_push(executor.task_queue, TaskQueueCap, t)} :
          /\ Held(t)
          /\ executor' = Resume([executor EXCEPT !.task_queue = r.queue])
          /\ panicked' = ~r.ok
          /\ wakers' = IF consume THEN Arc_drop(wakers, t) ELSE wakers
          /\ irq' = [Handled(irq, "waker") EXCEPT
                        !.woke = TRUE,
                        !.heap_ops = IF consume /\ DropsLast(wakers, t) THEN @ + 1 ELSE @,
                        !.deadlock = consume /\ DropsLast(wakers, t) /\ lock # Free]
    /\ UNCHANGED <<kind, vga, heap, inited, bump, head, fsb, locked_heap, live,
                   last, hist, vec, fa, mapper, ih, lock, calls, keyboard>>

NextExecutor ==
    \/ main_lock
    \/ Executor_new
    \/ Executor_spawn
    \/ run_ready_tasks_pop
    \/ run_ready_tasks_waker
    \/ TaskWaker_new
    \/ Task_poll_ready
    \/ Task_poll_pending
    \/ run_ready_tasks_ready
    \/ sleep_if_idle
    \/ hlt
    \/ waker_interrupt

SpecExecutor == InitInterrupts /\ [][NextExecutor]_vars

(***************************************************************************)
(* Printing and the interrupt handlers.  The test kernel of lib.rs calls   *)
(* init(), which initialises the PICs and enables interrupts, and then     *)
(* runs the tests: they print to the screen with println!, read the screen *)
(* back (test_println_output) and report over the serial port.  From the   *)
(* moment interrupts are enabled a handler may run between any two steps;  *)
(* it runs to its end, or spins for ever on a lock that is taken.          *)
(***************************************************************************)
MaxPrints == 2

\* The strings the tests print: printable, at most one row long.
TestStrings == {<<97>>, <<97, 98>>}

PrintRunning == ~vga.spin

\* init(): PICS.lock().initialize(), with interrupts still disabled.
init_pics_lock ==
    /\ PrintRunning /\ vga.pc = "boot" /\ vga.PICS = Free
    /\ vga' = [vga EXCEPT !.PICS = Main, !.pc = "pics"]
    /\ UNCHANGED <<kind, heap, inited, panicked, bump, head, fsb, locked_heap, live,
                   last, hist, vec, fa, mapper, ih, lock, calls, executor, keyboard,
                   wakers, irq>>

init_pics_unlock ==
    /\ PrintRunning /\ vga.pc = "pics"
    /\ vga' = [vga EXCEPT !.PICS = Free, !.pc = "enable"]
    /\ UNCHANGED <<kind, heap, inited, panicked, bump, head, fsb, locked_heap, live,
                   last, hist, vec, fa, mapper, ih, lock, calls, executor, keyboard,
                   wakers, irq>>

\* init(): x86_64::instructions::interrupts::enable()
interrupts_enable ==
    /\ PrintRunning /\ vga.pc = "enable"
    /\ vga' = [vga EXCEPT !.interrupts = TRUE, !.pc = "idle"]
    /\ UNCHANGED <<kind, heap, inited, panicked, bump, head, fsb, locked_heap, live,
                   last, hist, vec, fa, mapper, ih, lock, calls, executor, keyboard,
                   wakers, irq>>

\* vga_buffer::_print, first half: WRITER.lock(), interrupts as they are.
print_lock ==
    /\ PrintRunning /\ vga.pc = "idle" /\ vga.prints < MaxPrints /\ vga.WRITER = Free
    /\ \E s \in TestStrings :
          vga' = [vga EXCEPT !.WRITER = Main, !.pc = "print", !.text = s]
    /\ UNCHANGED <<kind, heap, inited, panicked, bump, head, fsb, locked_heap, live,
                   last, hist, vec, fa, mapper, ih, lock, calls, executor, keyboard,
                   wakers, irq>>

\* vga_buffer::_print, second half: write_fmt of println!'s "{}\n" and the
\* guard dropped.
print_write ==
    /\ PrintRunning /\ vga.pc = "print"
    /\ vga' = [vga EXCEPT !.writer = write_string(@, Append(vga.text, NEWLINE)),
                          !.WRITER = Free, !.pc = "printed"]
    /\ UNCHANGED <<kind, heap, inited, panicked, bump, head, fsb, locked_heap, live,
                   last, hist, vec, fa, mapper, ih, lock, calls, executor, keyboard,
                   wakers, irq>>

\* test_println_output: WRITER.lock() to read the row above the last.
read_lock ==
    /\ PrintRunning /\ vga.pc = "printed" /\ vga.WRITER = Free
    /\ vga' = [vga EXCEPT !.WRITER = Main, !.pc = "reading"]
    /\ UNCHANGED <<kind, heap, inited, panicked, bump, head, fsb, locked_heap, live,
                   last, hist, vec, fa, mapper, ih, lock, calls, executor, keyboard,
                   wakers, irq>>

read_unlock ==
    /\ PrintRunning /\ vga.pc = "reading"
    /\ vga' = [vga EXCEPT !.WRITER = Free, !.pc = "idle", !.prints = @ + 1]
    /\ UNCHANGED <<kind, heap, inited, panicked, bump, head, fsb, locked_heap, live,
                   last, hist, vec, fa, mapper, ih, lock, calls, executor, keyboard,
                   wakers, irq>>

\* serial::_print: without_interrupts saves the flag and disables interrupts,
\* SERIAL1 is locked and written, and the flag is restored.
serial_print_disable ==
    /\ PrintRunning /\ vga.pc = "idle" /\ vga.prints < MaxPrints
    /\ vga' = [vga EXCEPT !.saved = vga.interrupts, !.interrupts = FALSE, !.pc = "serial"]
    /\ UNCHANGED <<kind, heap, inited, panicked, bump, head, fsb, locked_heap, live,
                   last, hist, vec, fa, mapper, ih, lock, calls, executor, keyboard,
                   wakers, irq>>

serial_print_lock ==
    /\ PrintRunning /\ vga.pc = "serial" /\ vga.SERIAL1 = Free
    /\ vga' = [vga EXCEPT !.SERIAL1 = Main, !.pc = "serial_write"]
    /\ UNCHANGED <<kind, heap, inited, panicked, bump, head, fsb, locked_heap, live,
                   last, hist, vec, fa, mapper, ih, lock, calls, executor, keyboard,
                   wakers, irq>>

serial_print_unlock ==
    /\ PrintRunning /\ vga.pc = "serial_write"
    /\ vga' = [vga EXCEPT !.SERIAL1 = Free, !.interrupts = vga.saved, !.pc = "idle",
                          !.prints = @ + 1]
    /\ UNCHANGED <<kind, heap, inited, panicked, bump, head, fsb, locked_heap, live,
                   last, hist, vec, fa, mapper, ih, lock, calls, executor, keyboard,
                   wakers, irq>>

\* A handler's print!: it writes when WRITER is free and spins for ever when
\* the code it interrupted holds it.
handler_print(v, s) ==
    IF v.spin THEN v
    ELSE IF v.WRITER # Free THEN [v EXCEPT !.spin = TRUE]
    ELSE [v EXCEPT !.writer = write_string(@, s)]

\* A handler's PICS.lock().notify_end_of_interrupt(..).
notify_end_of_interrupt(v) ==
    IF v.spin THEN v
    ELSE IF v.PICS # Free THEN [v EXCEPT !.spin = TRUE]
    ELSE v

CanInterrupt == PrintRunning /\ vga.interrupts /\ irq.count < MaxInterrupts

\* timer_interrupt_handler: print!(".") and the end-of-interrupt.
timer_interrupt ==
    /\ CanInterrupt
    /\ vga' = notify_end_of_interrupt(handler_print(vga, <<46>>))
    /\ irq' = Handled(irq, "timer")
    /\ UNCHANGED <<kind, heap, inited, panicked, bump, head, fsb, locked_heap, live,
                   last, hist, vec, fa, mapper, ih, lock, calls, executor, keyboard,
                   wakers>>

\* keyboard_interrupt_handler: the digit keys are printed, then the
\* end-of-interrupt.
keyboard_interrupt ==
    /\ CanInterrupt
    /\ \E key \in {<<49>>, << >>} :
          vga' = notify_end_of_interrupt(
                    IF key = << >> THEN vga ELSE handler_print(vga, key))
    /\ irq' = Handled(irq, "keyboard")
    /\ UNCHANGED <<kind, heap, inited, panicked, bump, head, fsb, locked_heap, live,
                   last, hist, vec, fa, mapper, ih, lock, calls, executor, keyboard,
                   wakers>>

NextPrint ==
    \/ init_pics_lock
    \/ init_pics_unlock
    \/ interrupts_enable
    \/ print_lock
    \/ print_write
    \/ read_lock
    \/ read_unlock
    \/ serial_print_disable
    \/ serial_print_lock
    \/ serial_print_unlock
    \/ timer_interrupt
    \/ keyboard_interrupt

SpecPrint == InitInterrupts /\ [][NextPrint]_vars

(***************************************************************************)
(* The linked list allocator under callers that break the contract: init   *)
(* over a region of any start and size, dealloc of any address.  These are *)
(* the calls that reach add_free_region with a misaligned address or with  *)
(* a size below a node's.                                                  *)
(***************************************************************************)
MaxNodes == 2

\* Heap starts at and off the node alignment, heap sizes below, at and above
\* the node size.
MisuseStarts == {HEAP_START, HEAP_START + 4}
MisuseSizes == {8, LIST_NODE_SIZE, SmallHeap}

\* Addresses a caller may hand to dealloc: every fourth byte of the first
\* words of the heap.
MisusePtrs == {heap.start + 4 * k : k \in 0..3}

InitMisuse ==
    /\ kind = "linked_list"
    /\ InitHeap
    /\ vec = NoVec /\ fa = NoFrames
    /\ mapper = NoMapper /\ ih = NoInitHeap
    /\ lock = Free /\ calls = NoCalls
    /\ NoTasks

\* init(heap_start, heap_size) with whatever the caller passes.
linked_list_init_any ==
    /\ ~inited
    /\ \E heap_start \in MisuseStarts : \E heap_size \in MisuseSizes :
       \E r \in {LinkedListAllocator_init(head, heap_start, heap_size)} :
          head' = r.st /\ Initialised(heap_start, heap_size, r.panic)
    /\ UNCHANGED <<bump, fsb, locked_heap, vec, fa, mapper, ih, lock, calls,
                   executor, keyboard, wakers, irq>>

\* dealloc(ptr, layout) of a Box<i32> or Box<usize> at any address.
linked_list_dealloc_any ==
    /\ inited /\ CanCall /\ Len(head) < MaxNodes
    /\ \E ptr \in MisusePtrs : \E layout \in {I32_LAYOUT, USIZE_LAYOUT} :
       \E r \in {linked_list_dealloc_fn(head, ptr, layout)} :
          head' = r.st /\ Deallocated(Block(ptr, layout), r.panic)
    /\ UNCHANGED <<bump, fsb, locked_heap, vec, fa, mapper, ih, lock, calls,
                   executor, keyboard, wakers, irq>>

NextMisuse ==
    \/ linked_list_init_any
    \/ linked_list_alloc
    \/ linked_list_dealloc_any

SpecMisuse == InitMisuse /\ [][NextMisuse]_vars

(***************************************************************************)
(* Properties of the allocators                                            *)
(***************************************************************************)
LastLayout == Layout(last.size, last.align)

\* The blocks that were live before the last call and still are: after an
\* alloc, every live block but the one just handed out.
HeldLive == IF last.op = "alloc" THEN live \ {Block(last.ptr, LastLayout)} ELSE live

\* What an alloc(layout) made in the current state returns.
AllocNow(layout) == global_alloc(kind, GlobalState, layout)

\* C1: every non-null address an alloc returns is a multiple of the alignment
\* of the layout it was called with, for each of the three allocators.
C1_Alignment ==
    (last.op = "alloc" /\ last.ptr # NULL) => last.ptr % last.align = 0

\* A 16-aligned block handed out by the linked list allocator past the start
\* of the heap, while other blocks are live.
C1_Witness ==
    /\ kind = "linked_list" /\ last.op = "alloc" /\ last.ptr # NULL
    /\ last.align = 16 /\ last.ptr > heap.start /\ HeldLive # {}

\* C2: the blocks handed out by successive successful allocs with no dealloc
\* in between are pairwise disjoint.
C2_NoOverlap ==
    \A i, j \in 1..Len(hist.run) : i < j => Disjoint(hist.run[i], hist.run[j])

\* Three blocks handed out in a row.
C2_Witness == Len(hist.run) = MaxLive /\ kind = "linked_list"

\* C3: on the linked list and the fixed-size block allocator, with an earlier
\* block held live, the alloc of every alloc-then-free cycle of one small
\* layout succeeds: the first Box<usize> after a Box<i32>/Box<usize> was
\* allocated on the fresh heap (many_boxes_long_lived), and every alloc that
\* follows a completed cycle of its layout.
C3_SustainedReuse ==
    (/\ kind \in {"linked_list", "fixed_size_block"}
     /\ last.op = "alloc" /\ LastLayout \in SmallLayouts
     /\ HeldLive # {})
    => /\ hist.cycN >= 1 => last.ptr # NULL
       /\ (/\ hist.nops = 2 /\ LastLayout = USIZE_LAYOUT
           /\ \E b \in HeldLive : LayoutOf(b) \in {I32_LAYOUT, USIZE_LAYOUT})
             => last.ptr # NULL

\* The alloc that follows MaxCycles completed cycles, a block being held.
C3_Witness ==
    /\ kind = "linked_list" /\ last.op = "alloc" /\ last.ptr # NULL
    /\ hist.cycN = MaxCycles /\ HeldLive # {}

\* C4: on the bump allocator, while a block is held live, next never moves
\* back, the cycles made so far have each used fresh bytes, and the alloc of
\* a cycle that would bring the bytes used by the cycles above the heap size
\* returns null.
C4_BumpNoReuse ==
    /\ []((kind = "bump" /\ HeldLive # {})
            => bump.next - bump.heap_start >= hist.cycN * hist.cycL.size)
    /\ []((kind = "bump" /\ HeldLive # {} /\ last.op = "alloc"
           /\ (hist.cycN + 1) * last.size > heap.size)
            => last.ptr = NULL)
    /\ [][(kind = "bump" /\ bump.allocations > 0 /\ bump'.allocations > 0)
            => bump'.next >= bump.next]_vars

\* A cycle's alloc of a small block fails after completed cycles, a block
\* being held.
C4_Witness ==
    /\ kind = "bump" /\ last.op = "alloc" /\ last.ptr = NULL
    /\ LastLayout \in SmallLayouts /\ hist.cycN >= 1 /\ HeldLive # {}

\* C5: on every allocator, with no other block live, the alloc of a usize
\* block on the fresh heap succeeds, and so does the alloc of every cycle that
\* follows a completed alloc-then-free cycle of the same layout.
C5_ReuseWhenEmpty ==
    (inited /\ last.op = "alloc" /\ HeldLive = {})
    => /\ hist.cycN >= 1 => last.ptr # NULL
       /\ (hist.nops = 1 /\ LastLayout = USIZE_LAYOUT) => last.ptr # NULL

\* The bump allocator hands out a usize block after MaxCycles such cycles.
C5_Witness ==
    /\ kind = "bump" /\ last.op = "alloc" /\ last.ptr # NULL
    /\ LastLayout = USIZE_LAYOUT /\ hist.cycN = MaxCycles /\ HeldLive = {}

\* C6: after alloc(L) returned p and dealloc(p, L) followed at once, an
\* alloc(L) returns p again: on the linked list allocator, on the fixed-size
\* block allocator for a layout of a size class, on the bump allocator when no
\* other block is live.
C6_RoundTrip ==
    (/\ last.op = "dealloc" /\ hist.cycN >= 1 /\ ~panicked
     /\ \/ kind = "linked_list"
        \/ kind = "fixed_size_block" /\ list_index(LastLayout) # None
        \/ kind = "bump" /\ live = {})
    => /\ AllocNow(LastLayout).ptr = last.ptr
       /\ ~AllocNow(LastLayout).panic

\* A block of the fixed-size block allocator freed right after its alloc,
\* other blocks being live.
C6_Witness ==
    /\ kind = "fixed_size_block" /\ last.op = "dealloc" /\ hist.cycN >= 1
    /\ live # {}

\* C7: an alloc of more bytes than the whole heap returns null and does not
\* panic, in every state of every allocator.
C7_OversizeNull ==
    (last.op = "alloc" /\ last.size > heap.size) => (last.ptr = NULL /\ ~panicked)

\* C8 as stated: a request of exactly the remaining free size (bump:
\* heap_end - next; linked list: the sum of the node sizes) with alignment 1
\* succeeds.
C8_ExactRemaining ==
    (inited /\ ~panicked /\ kind \in {"bump", "linked_list"} /\ RemainingFree > 0)
    => AllocNow(Layout(RemainingFree, 1)).ptr # NULL

\* C8, amended: on the bump allocator a request of exactly heap_end - next
\* bytes succeeds; on the linked list allocator a request of exactly the size
\* of a free-list node succeeds (the whole remaining free size when the list
\* has one node).  Alignment 1, a non-zero size.
C8_ExactFit ==
    (inited /\ ~panicked)
    => /\ (kind = "bump" /\ RemainingFree > 0)
            => AllocNow(Layout(RemainingFree, 1)).ptr # NULL
       /\ kind = "linked_list"
            => \A i \in 1..Len(head) : AllocNow(Layout(head[i].size, 1)).ptr # NULL

\* The linked list allocator has handed out its last node whole, after the
\* heap was split.
C8_Witness ==
    /\ kind = "linked_list" /\ last.op = "alloc" /\ last.ptr # NULL
    /\ last.align = 1 /\ head = << >> /\ last.size < heap.size

\* The bytes of the free memory: the nodes of the linked list allocator, the
\* holes and the class blocks of the fixed-size block allocator, what lies at
\* and after next in the bump allocator.
FreeBlocks ==
    IF kind = "bump" THEN {Block(bump.next, Layout(bump.heap_end - bump.next, 1))}
    ELSE IF kind = "linked_list"
    THEN {Block(head[i].addr, Layout(head[i].size, 1)) : i \in 1..Len(head)}
    ELSE IF kind = "locked_heap"
    THEN {Block(locked_heap.holes[i].addr, Layout(locked_heap.holes[i].size, 1)) :
             i \in 1..Len(locked_heap.holes)}
    ELSE {Block(fsb.fallback_allocator.holes[i].addr,
                Layout(fsb.fallback_allocator.holes[i].size, 1)) :
             i \in 1..Len(fsb.fallback_allocator.holes)}
         \cup UNION {{Block(fsb.list_heads[c][i], Layout(BLOCK_SIZES[c], 1)) :
                         i \in 1..Len(fsb.list_heads[c])} : c \in 1..Len(BLOCK_SIZES)}

\* C9: in large_vec on the 100 KiB heap no push runs out of memory or
\* panics, every buffer the vector grows into is disjoint from the buffer it
\* leaves, the live buffer lies in the heap and shares no byte with the free
\* memory, the values pushed are the values held, and at the end their sum is
\* 499500.
C9_LargeVec ==
    /\ ~panicked /\ vec.pc \notin {"oom", "assert_failed"}
    /\ vec.disjoint
    /\ vec.cap > 0 =>
          /\ heap.start <= vec.ptr /\ vec.ptr + U64_SIZE * vec.cap <= heap.start + heap.size
          /\ vec.pc = "large_vec" => \A f \in FreeBlocks : Disjoint(f, VecBlock)
    /\ \A k \in 1..vec.len : vec.data[k] = k - 1
    /\ vec.pc = "done" => vec.sum = 499500

\* The test has ended on the linked list allocator, the vector grown to 1024.
C9_Witness ==
    /\ kind = "linked_list" /\ vec.pc = "done" /\ vec.len = N_VALUES /\ vec.cap = 1024

\* C10: when the usable regions of the memory map are frame-aligned and do
\* not overlap, no frame is returned by two allocate_frame calls of one
\* BootInfoFrameAllocator.
C10_NoFrameTwice ==
    (FrameAligned(fa.memory_map) /\ NonOverlapping(fa.memory_map)) =>
        \A i, j \in 1..Len(fa.returned) :
            (i < j /\ fa.returned[i] # None) => fa.returned[i] # fa.returned[j]

\* Every frame of two usable regions has been returned, and a None after them.
C10_Witness ==
    /\ FrameAligned(fa.memory_map) /\ NonOverlapping(fa.memory_map)
    /\ Len(fa.memory_map) = 2
    /\ \A i \in 1..2 : fa.memory_map[i].region_type = "Usable"
    /\ Len(fa.returned) = 4
    /\ fa.returned[3] # None /\ fa.returned[4] = None

\* The number of 4096-byte steps through a region, none when it is not usable.
FramesIn(r) ==
    IF r.region_type = "Usable" THEN (r.end - r.start + PAGE_SIZE - 1) \div PAGE_SIZE ELSE 0

\* The number of frames of the usable regions before the i-th region of the map.
RECURSIVE FramesBefore(_, _)
FramesBefore(memory_map, i) ==
    IF i <= 1 THEN 0
    ELSE FramesBefore(memory_map, i - 1) + FramesIn(memory_map[i - 1])

\* The k-th frame (from 0) of the walk through the map, None past its end.
KthFrame(memory_map, k) ==
    LET at == {i \in 1..Len(memory_map) :
                  /\ FramesBefore(memory_map, i) <= k
                  /\ k < FramesBefore(memory_map, i) + FramesIn(memory_map[i])}
    IN IF at = {} THEN None
       ELSE LET i == CHOOSE i \in at : TRUE
            IN containing_address(memory_map[i].start
                                  + (k - FramesBefore(memory_map, i)) * PAGE_SIZE)

\* C11: the k-th call of allocate_frame (from 0) returns the k-th frame of the
\* walk through the usable regions of the map in steps of 4096; a frame it
\* returns shares bytes with a usable region; once it has returned None it
\* returns None on every later call.
C11_KthFrame ==
    /\ fa.next = Len(fa.returned)
    /\ \A k \in 1..Len(fa.returned) :
          /\ fa.returned[k] = KthFrame(fa.memory_map, k - 1)
          /\ fa.returned[k] # None =>
                \E i \in 1..Len(fa.memory_map) :
                    /\ fa.memory_map[i].region_type = "Usable"
                    /\ fa.returned[k] < fa.memory_map[i].end
                    /\ fa.returned[k] + PAGE_SIZE > fa.memory_map[i].start
          /\ fa.returned[k] = None =>
                \A j \in k..Len(fa.returned) : fa.returned[j] = None

\* A region in use comes first in the map; the two frames of the usable region
\* after it were returned, then None twice.
C11_Witness ==
    /\ Len(fa.memory_map) = 2
    /\ fa.memory_map[1].region_type = "InUse"
    /\ fa.memory_map[2].region_type = "Usable"
    /\ Len(fa.returned) = 4
    /\ fa.returned[2] # None /\ fa.returned[3] = None /\ fa.returned[4] = None

\* The entries of the pages of the heap: from the page of HEAP_START to the
\* page of the last byte, HEAP_START + HEAP_SIZE - 1.
HeapEntries ==
    {e \in mapper.entries :
        /\ HEAP_START \div PAGE_SIZE <= e.page
        /\ e.page <= (HEAP_START + HEAP_SIZE - 1) \div PAGE_SIZE}
AllHeapPagesMapped ==
    \A p \in (HEAP_START \div PAGE_SIZE)..((HEAP_START + HEAP_SIZE - 1) \div PAGE_SIZE) :
        \E e \in HeapEntries : e.page = p /\ e.flags = {"PRESENT", "WRITABLE"}

\* C12: when init_heap has returned Ok every page of the heap range is mapped
\* PRESENT|WRITABLE, the frames of these pages are pairwise distinct and none
\* is a frame taken for a new page table; the allocator is initialised only
\* when every page is mapped.
C12_HeapMapped ==
    /\ ih.result = "Ok" =>
          /\ AllHeapPagesMapped
          /\ \A e1, e2 \in HeapEntries : e1.page # e2.page => e1.frame # e2.frame
          /\ \A e \in HeapEntries : e.frame \notin mapper.table_frames
          /\ inited
    /\ inited => (AllHeapPagesMapped /\ ih.result = "Ok")

\* init_heap returned Ok after it created the three tables above the heap, its
\* frames taken from two usable regions.
C12_Witness ==
    /\ ih.result = "Ok" /\ inited
    /\ Cardinality(mapper.table_frames) = 3
    /\ Len(fa.memory_map) = 2
    /\ \A i \in 1..2 : fa.memory_map[i].region_type = "Usable"

\* C13: when allocate_frame returns None, for a page or for a table of it,
\* init_heap returns FrameAllocationFailed, and when map_to finds the page
\* mapped it returns that error: at once, the failing page being the last one
\* attempted; every page attempted before it stays mapped, and the allocator is
\* not initialised.
C13_FirstFailure ==
    LET n == Len(ih.attempted)
        exhausted == \E i \in 1..Len(fa.returned) : fa.returned[i] = None
        already == \E e \in mapper.entries :
                      e.frame = VGA_FRAME /\ \E i \in 1..n : ih.attempted[i] = e.page
    IN /\ exhausted =>
             /\ ih.pc = "returned" /\ ih.result = "FrameAllocationFailed"
             /\ \A i \in 1..Len(fa.returned) :
                   fa.returned[i] = None => i = Len(fa.returned)
       /\ (already /\ ~exhausted) =>
             /\ ih.pc = "returned" /\ ih.result = "PageAlreadyMapped"
             /\ \E e \in mapper.entries :
                   e.frame = VGA_FRAME /\ e.page = ih.attempted[n]
       /\ ih.result \notin {"none", "Ok"} =>
             /\ ~inited /\ locked_heap = Heap_empty
             /\ (exhausted \/ already)
             /\ \A i \in 1..n : ih.attempted[i] = HEAP_START \div PAGE_SIZE + i - 1
             /\ \A i \in 1..(n - 1) :
                   \E e \in mapper.entries :
                       /\ e.page = ih.attempted[i] /\ e.flags = {"PRESENT", "WRITABLE"}
                       /\ \E j \in 1..Len(fa.returned) : fa.returned[j] = e.frame

\* The frames ran out after pages of the heap were mapped: init_heap returned
\* FrameAllocationFailed and the pages stay mapped.
C13_Witness ==
    /\ ih.result = "FrameAllocationFailed"
    /\ Len(ih.attempted) > 3
    /\ Cardinality(HeapEntries) = Len(ih.attempted) - 1
    /\ ~inited

\* C16: on each allocator, after any sequence of allocs and of deallocs of
\* live blocks, the live blocks are pairwise disjoint, each lies within the
\* heap, and no block was handed out while it was live.
C16_LiveDisjoint ==
    /\ ~hist.dup
    /\ \A a, b \in live : a # b => Disjoint(a, b)
    /\ \A a \in live : heap.start <= a.ptr /\ a.ptr + a.size <= heap.start + heap.size

\* The fixed-size block allocator hands a freed block out again while as many
\* other blocks are live as can be.
C16_Witness ==
    /\ kind = "fixed_size_block" /\ last.op = "alloc" /\ last.ptr # NULL
    /\ hist.cycN >= 1 /\ Cardinality(live) = MaxLive

\* The first multiple of align at or above addr.
RoundedUp(addr, align) == CHOOSE s \in addr..(addr + align - 1) : s % align = 0

\* A bump alloc(layout) in the current state has room: start + size neither
\* overflows nor exceeds heap_end.
BumpFits(layout) ==
    /\ RoundedUp(bump.next, layout.align) + layout.size <= USIZE_MAX
    /\ RoundedUp(bump.next, layout.align) + layout.size <= bump.heap_end

\* C17: a bump alloc succeeds exactly when next rounded up to align, plus
\* size, neither overflows nor exceeds heap_end; it then returns that start,
\* sets next to start + size and adds 1 to the allocation count.
C17_BumpAlloc ==
    (kind = "bump" /\ inited /\ ~panicked) =>
        \A layout \in Requests :
            LET r == AllocNow(layout)
            IN /\ r.ptr # NULL <=> BumpFits(layout)
               /\ BumpFits(layout) =>
                  /\ r.ptr = RoundedUp(bump.next, layout.align)
                  /\ r.st.bump =
                        [bump EXCEPT
                           !.next = RoundedUp(bump.next, layout.align) + layout.size,
                           !.allocations = bump.allocations + 1]

\* A 16-aligned block handed out after padding, a second live allocation.
C17_Witness ==
    /\ kind = "bump" /\ last.op = "alloc" /\ last.ptr # NULL /\ last.align = 16
    /\ bump.allocations = 2
    /\ bump.next = last.ptr + last.size
    /\ \E b \in HeldLive : b.ptr + b.size < last.ptr

\* C18: a bump alloc that has no room returns null, does not panic and leaves
\* next, the allocation count, heap_start and heap_end as they were.
C18_BumpAllocFails ==
    (kind = "bump" /\ inited /\ ~panicked) =>
        \A layout \in Requests :
            ~BumpFits(layout) =>
                LET r == AllocNow(layout)
                IN /\ r.ptr = NULL
                   /\ ~r.panic
                   /\ r.st.bump = bump

\* A bump alloc of a small block has returned null, others being live.
C18_Witness ==
    /\ kind = "bump" /\ last.op = "alloc" /\ last.ptr = NULL
    /\ LastLayout \in SmallLayouts /\ bump.allocations = 2 /\ ~BumpFits(LastLayout)

\* What a dealloc of the live block b made in the current state leaves.
DeallocNow(b) == global_dealloc(kind, GlobalState, b.ptr, LayoutOf(b))

\* C19: a bump dealloc takes 1 from the allocation count whatever block it is
\* given, and sets next to heap_start exactly when the count has become 0;
\* else next stays.
C19_BumpDealloc ==
    (kind = "bump" /\ ~panicked) =>
        \A b \in live :
            LET d == DeallocNow(b)
            IN /\ ~d.panic
               /\ d.st.bump =
                  [bump EXCEPT
                     !.allocations = bump.allocations - 1,
                     !.next = IF bump.allocations = 1 THEN bump.heap_start ELSE bump.next]

\* A dealloc has left one allocation and next where it was; the next dealloc
\* will reset it.
C19_Witness ==
    /\ kind = "bump" /\ last.op = "dealloc" /\ bump.allocations = 1
    /\ bump.next > bump.heap_start /\ Cardinality(live) = 1

\* C20: in every state of the bump allocator, before init and after,
\* heap_start <= next <= heap_end.
C20_BumpNextInHeap ==
    kind = "bump" => (bump.heap_start <= bump.next /\ bump.next <= bump.heap_end)

\* next has reached heap_end.
C20_Witness ==
    /\ kind = "bump" /\ inited /\ bump.next = bump.heap_end /\ bump.allocations = MaxLive

\* C14: every alloc and dealloc takes the allocator's lock before it reads or
\* writes allocator state and gives it back when it returns, with a pointer
\* or with null: a context that is working on the allocator or about to return
\* holds the lock, whatever it did to the allocator it did under the lock, so
\* no two calls are at the allocator at once, and with every context outside
\* a call the lock is free.
InCall(c) == calls[c].pc \in {"body", "return"}
C14_LockHeld ==
    /\ \A c \in Contexts : InCall(c) => lock = c
    /\ \A c \in Contexts : calls[c].guarded
    /\ \A c, d \in Contexts : InCall(c) /\ InCall(d) => c = d
    /\ (~panicked /\ \A c \in Contexts : calls[c].pc \in {"idle", "lock"}) => lock = Free

\* One context is about to return null from alloc, still holding the lock,
\* the other has finished a call and waits for the lock with its next one.
C14_Witness ==
    \E c, d \in Contexts :
        /\ c # d
        /\ calls[c].pc = "return" /\ calls[c].op = "alloc" /\ calls[c].ptr = NULL
        /\ lock = c
        /\ calls[d].pc = "lock" /\ calls[d].started = MaxCalls
        /\ live # {}

\* C15: nothing that runs inside an interrupt handler allocates or frees heap
\* memory: the handlers have done no heap operation, so none of them waits
\* for the allocator lock of the code it interrupted, and whenever a waker is
\* registered in WAKER the executor's cache holds another reference to it,
\* so the wake in the handler never drops the last one.
C15_NoHeapInHandler ==
    /\ irq.heap_ops = 0
    /\ ~irq.deadlock
    /\ keyboard.WAKER # NoTask =>
          /\ keyboard.WAKER \in executor.waker_cache
          /\ wakers[keyboard.WAKER] >= 2

\* The handlers ran while main held the allocator lock, add_scancode woke a
\* registered waker, and the task's waker is still alive in the cache.
C15_Witness ==
    /\ irq.in_lock /\ irq.woke
    /\ irq.heap_ops = 0
    /\ keyboard.WAKER = NoTask
    /\ wakers[PRINT_KEYPRESSES] = 1
    /\ PRINT_KEYPRESSES \in executor.waker_cache

\* C21: in every state of the bump allocator, with dealloc called on live
\* blocks only, the allocation count is the number of live allocations, and
\* when the count is 0, next is heap_start.
C21_BumpCount ==
    kind = "bump" =>
        /\ bump.allocations = Cardinality(live)
        /\ bump.allocations >= 0
        /\ bump.allocations = 0 => bump.next = bump.heap_start

\* Two blocks were handed out, a dealloc has left one of them live and next
\* past it, and an alloc since then was turned down.
C21_Witness ==
    /\ kind = "bump" /\ last.op = "alloc" /\ last.ptr = NULL
    /\ bump.allocations = 1 /\ Cardinality(live) = 1
    /\ bump.next > bump.heap_start + 8
    /\ \E b \in live : b.ptr + b.size < bump.next

\* The adjusted size and alignment of a request, written out: the alignment
\* at least the node's, the size rounded up to it and at least the node's.
AdjAlign(layout) == Max(layout.align, LIST_NODE_ALIGN)
AdjSize(layout) ==
    Max(RoundedUp(layout.size, AdjAlign(layout)), LIST_NODE_SIZE)

\* Node n can serve the request: the block placed at n's start rounded up to
\* the adjusted alignment ends inside n and leaves no tail or a tail that can
\* hold a node.
Serves(n, layout) ==
    LET s == RoundedUp(n.addr, AdjAlign(layout))
        tail == n.addr + n.size - (s + AdjSize(layout))
    IN tail = 0 \/ tail >= LIST_NODE_SIZE

\* The list without its i-th node.
Without(list, i) == SubSeq(list, 1, i - 1) \o SubSeq(list, i + 1, Len(list))

\* The list a linked-list alloc leaves when it takes node i: the node is
\* unlinked and its tail, if any, is the new first node.
AfterTaking(list, i, layout) ==
    LET s == RoundedUp(list[i].addr, AdjAlign(layout))
        e == s + AdjSize(layout)
        tail == list[i].addr + list[i].size - e
    IN IF tail > 0 THEN <<ListNode(e, tail)>> \o Without(list, i)
       ELSE Without(list, i)

\* The requests whose adjusted size stays far below the word size.
PlainRequests == {l \in Requests : l.size <= 2 * SmallHeap + 16}

\* C22: a linked-list alloc takes the first node in list order that serves
\* the request: the block starts at that node's start rounded up to the
\* adjusted alignment, exactly that node is unlinked, the others keep their
\* order, and a non-zero tail becomes the new first node, starting where the
\* block ends.
C22_FirstFit ==
    (kind = "linked_list" /\ inited /\ ~panicked) =>
        \A layout \in PlainRequests :
        \A i \in 1..Len(head) :
            (Serves(head[i], layout) /\ \A j \in 1..(i - 1) : ~Serves(head[j], layout))
            => LET r == AllocNow(layout)
               IN /\ r.ptr = RoundedUp(head[i].addr, AdjAlign(layout))
                  /\ r.st.head = AfterTaking(head, i, layout)
                  /\ ~r.panic

\* The alloc passed over the first node, which was too small, took the second
\* and pushed its tail to the front.
C22_Witness ==
    /\ kind = "linked_list" /\ last.op = "alloc" /\ last.ptr # NULL
    /\ Len(head) = 2
    /\ head[1].addr = last.ptr + AdjSize(LastLayout)
    /\ head[2].addr < last.ptr
    /\ head[2].size < AdjSize(LastLayout)

\* Two free nodes that touch: b starts where a ends.
Adjacent(a, b) == a.addr + a.size = b.addr

\* C23: a linked-list dealloc(ptr, layout) puts a node at ptr, of the adjusted
\* size of layout, in front of the list and leaves the other nodes as they
\* were, merged with none of them: the list is longer by one.  A request
\* larger than every single node fails, whatever adjacent nodes would cover
\* together.
C23_DeallocPushesFront ==
    (kind = "linked_list" /\ inited /\ ~panicked) =>
        /\ \A b \in live :
              LET d == DeallocNow(b)
              IN /\ ~d.panic
                 /\ d.st.head = <<ListNode(b.ptr, AdjSize(LayoutOf(b)))>> \o head
                 /\ Len(d.st.head) = Len(head) + 1
        /\ \A layout \in PlainRequests :
              (\A i \in 1..Len(head) : head[i].size < AdjSize(layout))
              => LET r == AllocNow(layout)
                 IN r.ptr = NULL /\ r.st.head = head

\* A freed block lies in front of the node that starts where it ends, and an
\* alloc the two together would cover has just returned null.
C23_Witness ==
    /\ kind = "linked_list" /\ last.op = "alloc" /\ last.ptr = NULL
    /\ Len(head) >= 2
    /\ Adjacent(head[1], head[2])
    /\ head[1].size + head[2].size >= AdjSize(LastLayout)
    /\ head[1].size < AdjSize(LastLayout) /\ head[2].size < AdjSize(LastLayout)
    /\ LastLayout \in PlainRequests

\* The free nodes i and j share no byte.
NodesDisjoint(list, i, j) ==
    list[i].addr + list[i].size <= list[j].addr \/ list[j].addr + list[j].size <= list[i].addr

\* C24: after init over the 8-aligned heap and any calls, every free-list
\* node starts at a multiple of the node alignment, is at least as large as a
\* node, lies inside the heap, and no two nodes overlap; so neither assertion
\* of add_free_region fails in an alloc or in a dealloc of a live block.
C24_NodesWellFormed ==
    (kind = "linked_list" /\ inited /\ ~panicked) =>
        /\ \A i \in 1..Len(head) :
              /\ head[i].addr % LIST_NODE_ALIGN = 0
              /\ head[i].size >= LIST_NODE_SIZE
              /\ heap.start <= head[i].addr
              /\ head[i].addr + head[i].size <= heap.start + heap.size
        /\ \A i, j \in 1..Len(head) : i # j => NodesDisjoint(head, i, j)
        /\ \A layout \in PlainRequests : ~AllocNow(layout).panic
        /\ \A b \in live : ~DeallocNow(b).panic

\* An alloc has split a node and left a tail of exactly the node size in
\* front of another free node.
C24_Witness ==
    /\ kind = "linked_list" /\ last.op = "alloc" /\ last.ptr # NULL
    /\ Len(head) >= 2
    /\ head[1].addr = last.ptr + AdjSize(LastLayout)
    /\ head[1].size = LIST_NODE_SIZE
    /\ live # {}

\* The free-list nodes and the live allocations (at their adjusted size) that
\* hold the byte at address a.
NodesHolding(a) == {i \in 1..Len(head) : head[i].addr <= a /\ a < head[i].addr + head[i].size}
LiveHolding(a) == {b \in live : b.ptr <= a /\ a < b.ptr + AdjSize(LayoutOf(b))}

\* C25: the linked-list allocator never loses heap bytes: in every state each
\* byte of the heap lies in exactly one free-list node or in exactly one live
\* allocation of adjusted size, whatever alignments were requested.
C25_NoByteLost ==
    (kind = "linked_list" /\ inited /\ ~panicked) =>
        \A a \in heap.start..(heap.start + heap.size - 1) :
            Cardinality(NodesHolding(a)) + Cardinality(LiveHolding(a)) = 1

\* The bytes [ptr, ptr + size) touch no node of the list.
NoNodeIn(list, ptr, size) ==
    \A i \in 1..Len(list) :
        list[i].addr + list[i].size <= ptr \/ ptr + size <= list[i].addr

\* C26: size_align(layout) is the alignment max(layout.align, 8) and the size
\* max(layout.size rounded up to that alignment, 16).  alloc and dealloc both
\* use it: the bytes alloc takes out of the free list for the block are
\* [ptr, ptr + that size), behind whatever it skipped to align ptr, and
\* dealloc puts back exactly those.
C26_SizeAlign ==
    (kind = "linked_list" /\ inited /\ ~panicked) =>
        /\ \A layout \in PlainRequests :
              /\ size_align(layout) =
                    [ok |-> TRUE, size |-> AdjSize(layout), align |-> AdjAlign(layout)]
              /\ LET r == AllocNow(layout)
                 IN r.ptr # NULL =>
                    /\ NoNodeIn(r.st.head, r.ptr, AdjSize(layout))
                    /\ \E i \in 1..Len(head) :
                          /\ head[i].addr <= r.ptr
                          /\ r.ptr + AdjSize(layout) <= head[i].addr + head[i].size
                          /\ SumSizes(head) - SumSizes(r.st.head) =
                                AdjSize(layout) + (r.ptr - head[i].addr)
        /\ \A b \in live :
              LET d == DeallocNow(b)
              IN /\ NoNodeIn(head, b.ptr, AdjSize(LayoutOf(b)))
                 /\ Head(d.st.head) = ListNode(b.ptr, AdjSize(LayoutOf(b)))
                 /\ SumSizes(d.st.head) = SumSizes(head) + AdjSize(LayoutOf(b))

\* A Box<i32> block, 4 bytes asked for, has come back as a node of 16 bytes
\* at its address, next to the node that was split off behind it.
C26_Witness ==
    /\ kind = "linked_list" /\ last.op = "dealloc" /\ last.size = 4
    /\ Len(head) >= 2
    /\ head[1] = ListNode(last.ptr, LIST_NODE_SIZE)
    /\ \E i \in 2..Len(head) : head[i].addr = last.ptr + LIST_NODE_SIZE

\* What the fixed-size-block alloc asks the fallback heap for when the class
\* list gives nothing: a block of the class size, aligned to it, or the
\* layout itself when no class is large enough.
FallbackLayout(layout) ==
    IF list_index(layout) = None THEN layout
    ELSE Layout(BLOCK_SIZES[list_index(layout) + 1], BLOCK_SIZES[list_index(layout) + 1])

\* The class list of the layout is empty, or there is no class for it.
NoClassBlock(layout) ==
    list_index(layout) # None => fsb.list_heads[list_index(layout) + 1] = << >>

BadRegions ==
    {r \in (heap.start..(heap.start + LIST_NODE_ALIGN)) \X {0, 8, 15, 16, 24} :
        r[1] % LIST_NODE_ALIGN # 0 \/ r[2] < LIST_NODE_SIZE}

\* C28: add_free_region with an address that is not aligned for a node, or
\* with a size smaller than a node, stops the kernel on its assertion and
\* leaves the free list exactly as it was.
C28_BadRegionAborts ==
    kind = "linked_list" =>
        /\ \A r \in BadRegions :
              /\ add_free_region(head, r[1], r[2]).panic
              /\ add_free_region(head, r[1], r[2]).st = head
        /\ (panicked /\ last.op = "dealloc") =>
              \A i \in 1..Len(head) : head[i].addr # last.ptr
        /\ (panicked /\ last.op = "init") => head = << >>

\* A dealloc of an address off the node alignment has stopped the kernel,
\* with a block live; the free list still holds a node, none at that address.
C28_Witness ==
    /\ kind = "linked_list" /\ panicked /\ last.op = "dealloc"
    /\ last.ptr % LIST_NODE_ALIGN # 0
    /\ head # << >> /\ live # {}

\* Layouts around every class boundary, the alignment below and above the
\* size.
ClassLayouts ==
    {Layout(s + d, a) :
        s \in {BLOCK_SIZES[i] : i \in 1..Len(BLOCK_SIZES)}, d \in {-1, 0, 1},
        a \in {1, 8, 64, 4096}}

\* The class of a layout, counted out: as many classes are too small for
\* max(size, align) as the index says; no class when even 2048 is too small.
ClassOf(layout) ==
    IF Max(layout.size, layout.align) > 2048 THEN None
    ELSE Cardinality({i \in 1..Len(BLOCK_SIZES) :
                         BLOCK_SIZES[i] < Max(layout.size, layout.align)})

\* C29: list_index(layout) is the index of the smallest block size that is at
\* least max(layout.size, layout.align), and None exactly when that maximum
\* exceeds 2048; so alloc and dealloc of one layout take the same route: the
\* list of that class, or the fallback heap.
C29_ListIndex ==
    kind = "fixed_size_block" =>
        /\ \A layout \in ClassLayouts \cup Requests :
              /\ list_index(layout) = ClassOf(layout)
              /\ list_index(layout) = None <=> Max(layout.size, layout.align) > 2048
        /\ (inited /\ ~panicked) =>
              /\ \A layout \in Requests :
                    IF ClassOf(layout) = None
                    THEN AllocNow(layout).st.fsb.list_heads = fsb.list_heads
                    ELSE IF fsb.list_heads[ClassOf(layout) + 1] # << >>
                    THEN AllocNow(layout).ptr = Head(fsb.list_heads[ClassOf(layout) + 1])
                    ELSE AllocNow(layout).ptr =
                            fallback_alloc(fsb, FallbackLayout(layout)).ptr
              /\ \A b \in live :
                    LET d == DeallocNow(b)
                    IN IF ClassOf(LayoutOf(b)) = None
                       THEN d.st.fsb.list_heads = fsb.list_heads
                       ELSE /\ Head(d.st.fsb.list_heads[ClassOf(LayoutOf(b)) + 1]) = b.ptr
                            /\ d.st.fsb.fallback_allocator = fsb.fallback_allocator

\* A block of 24 bytes, served from the class of 32, has come back to the
\* list of that class.
C29_Witness ==
    /\ kind = "fixed_size_block" /\ last.op = "dealloc"
    /\ LastLayout = Layout(24, 8)
    /\ fsb.list_heads[3] # << >>
    /\ Head(fsb.list_heads[3]) = last.ptr
    /\ fsb.list_heads[4] = << >>

\* C30: a fixed-size-block alloc whose class list is not empty returns the
\* address of the list's head node and makes the head's successor the head;
\* the other class lists and the fallback heap stay as they are.  The block
\* freed last into a class is therefore the first to be handed out again.
C30_PopsHead ==
    (kind = "fixed_size_block" /\ inited /\ ~panicked) =>
        /\ \A layout \in Requests :
              (ClassOf(layout) # None /\ fsb.list_heads[ClassOf(layout) + 1] # << >>)
              => LET r == AllocNow(layout)
                 IN /\ r.ptr = Head(fsb.list_heads[ClassOf(layout) + 1])
                    /\ ~r.panic
                    /\ r.st.fsb = [fsb EXCEPT !.list_heads[ClassOf(layout) + 1] = Tail(@)]
        /\ (last.op = "dealloc" /\ ClassOf(LastLayout) # None)
              => AllocNow(LastLayout).ptr = last.ptr

\* An alloc has taken the head of a class list that held two blocks, while
\* the fallback heap had room of its own.
C30_Witness ==
    /\ kind = "fixed_size_block" /\ last.op = "alloc" /\ last.ptr # NULL
    /\ ClassOf(LastLayout) # None
    /\ Len(fsb.list_heads[ClassOf(LastLayout) + 1]) = 1
    /\ Head(fsb.list_heads[ClassOf(LastLayout) + 1]) < last.ptr
    /\ fsb.fallback_allocator.holes # << >>
    /\ hist.nops = 3

\* The size of the class of a layout that has one.
ClassSize(layout) == BLOCK_SIZES[ClassOf(layout) + 1]

\* C31: a fixed-size-block alloc whose class list is empty asks the fallback
\* heap for one block with size and alignment both the class's block size,
\* not the requested layout, and leaves every class list as it was; when no
\* class applies it passes the layout itself to the fallback heap.
C31_FallbackBlock ==
    (kind = "fixed_size_block" /\ inited /\ ~panicked) =>
        \A layout \in LargeRequests \cup {OverAligned} :
            LET r == AllocNow(layout)
            IN IF ClassOf(layout) = None
               THEN LET f == allocate_first_fit(fsb.fallback_allocator, layout)
                    IN /\ r.ptr = f.ptr
                       /\ r.st.fsb.fallback_allocator = f.st
                       /\ r.st.fsb.list_heads = fsb.list_heads
               ELSE fsb.list_heads[ClassOf(layout) + 1] = << >> =>
                    LET f == allocate_first_fit(fsb.fallback_allocator,
                                                Layout(ClassSize(layout), ClassSize(layout)))
                    IN /\ r.ptr = f.ptr
                       /\ r.st.fsb.fallback_allocator = f.st
                       /\ r.st.fsb.list_heads = fsb.list_heads
                       /\ r.ptr # NULL =>
                             /\ r.ptr % ClassSize(layout) = 0
                             /\ r.st.fsb.fallback_allocator.used =
                                   fsb.fallback_allocator.used
                                   + Max(ClassSize(layout), HOLE_MIN_SIZE)

\* A request of 24 bytes has been served from the fallback heap with a block
\* of 32, behind a live block too large for any class; no class list holds
\* a block.
C31_Witness ==
    /\ kind = "fixed_size_block" /\ last.op = "alloc" /\ last.ptr # NULL
    /\ LastLayout = Layout(24, 8)
    /\ \A i \in 1..Len(BLOCK_SIZES) : fsb.list_heads[i] = << >>
    /\ \E b \in live :
          /\ ClassOf(LayoutOf(b)) = None
          /\ fsb.fallback_allocator.used = RoundedUp(b.size, HOLE_ALIGN) + 32

\* C32: a fixed-size-block dealloc(ptr, layout) of a layout with a class
\* makes ptr the head of that class's list, the old head its successor, and
\* touches nothing else; its two assertions hold for every class.  With a
\* layout that has no class the block goes back to the fallback heap, at the
\* size of the layout itself, and no class list changes.
C32_DeallocRoutes ==
    /\ \A i \in 1..Len(BLOCK_SIZES) :
          /\ BLOCK_NODE_SIZE <= BLOCK_SIZES[i] /\ BLOCK_NODE_ALIGN <= BLOCK_SIZES[i]
          /\ ~fixed_size_block_dealloc_fn(fsb, HEAP_START,
                                          Layout(BLOCK_SIZES[i], BLOCK_SIZES[i])).panic
    /\ (kind = "fixed_size_block" /\ inited /\ ~panicked) =>
          \A b \in live :
              LET d == DeallocNow(b)
                  c == ClassOf(LayoutOf(b))
                  freed == RoundedUp(Max(b.size, HOLE_MIN_SIZE), HOLE_ALIGN)
              IN /\ ~d.panic
                 /\ IF c # None
                    THEN /\ d.st.fsb.list_heads =
                               [fsb.list_heads EXCEPT ![c + 1] = <<b.ptr>> \o @]
                         /\ Tail(d.st.fsb.list_heads[c + 1]) = fsb.list_heads[c + 1]
                         /\ d.st.fsb.fallback_allocator = fsb.fallback_allocator
                    ELSE /\ d.st.fsb.list_heads = fsb.list_heads
                         /\ d.st.fsb.fallback_allocator.used =
                               fsb.fallback_allocator.used - freed
                         /\ SumSizes(d.st.fsb.fallback_allocator.holes) =
                               SumSizes(fsb.fallback_allocator.holes) + freed
                         /\ \E i \in 1..Len(d.st.fsb.fallback_allocator.holes) :
                               LET h == d.st.fsb.fallback_allocator.holes[i]
                               IN h.addr <= b.ptr /\ b.ptr + freed <= h.addr + h.size

\* A second block of 24 bytes has come back: it heads the list of the class
\* of 32, in front of the block freed before it.
C32_Witness ==
    /\ kind = "fixed_size_block" /\ last.op = "dealloc"
    /\ LastLayout = Layout(24, 8)
    /\ Len(fsb.list_heads[3]) = 2
    /\ Head(fsb.list_heads[3]) = last.ptr
    /\ live = {}

\* The blocks in the list of class i (counted from 1), and whether p is one.
InClass(lists, i, p) == \E k \in 1..Len(lists[i]) : lists[i][k] = p

\* C33: a block carved for a size class stays in that class.  In every step
\* of the fixed-size-block allocator, a block in the list of class i is
\* either still in that list afterwards or was handed out by an alloc of a
\* layout of class i; it is in no other class's list and no hole of the
\* fallback heap covers any of its bytes; and a dealloc of a layout with a
\* class leaves the fallback heap as it was.
C33_ClassForEver ==
    [][kind = "fixed_size_block" =>
        /\ \A i \in 1..Len(BLOCK_SIZES) :
           \A k \in 1..Len(fsb.list_heads[i]) :
              LET p == fsb.list_heads[i][k]
              IN /\ \/ InClass(fsb'.list_heads, i, p)
                    \/ /\ last'.op = "alloc" /\ last'.ptr = p
                       /\ ClassOf(Layout(last'.size, last'.align)) = i - 1
                 /\ \A j \in 1..Len(BLOCK_SIZES) :
                       j # i => ~InClass(fsb'.list_heads, j, p)
                 /\ \A n \in 1..Len(fsb'.fallback_allocator.holes) :
                       LET h == fsb'.fallback_allocator.holes[n]
                       IN h.addr + h.size <= p \/ p + BLOCK_SIZES[i] <= h.addr
        /\ (last'.op = "dealloc" /\ ClassOf(Layout(last'.size, last'.align)) # None)
              => fsb'.fallback_allocator = fsb.fallback_allocator
      ]_vars

\* A Box<usize> was served from its class list, the second block carved out
\* of the heap, while the first block carved, of the class of 32, lies free
\* in its own list: the heap has 48 bytes in use for one live block of 8.
C33_Witness ==
    /\ kind = "fixed_size_block" /\ last.op = "alloc" /\ LastLayout = USIZE_LAYOUT
    /\ live = {Block(last.ptr, USIZE_LAYOUT)}
    /\ fsb.list_heads[3] # << >>
    /\ Head(fsb.list_heads[3]) < last.ptr
    /\ fsb.fallback_allocator.used = 48

\* The steps of main inside a poll of the task it popped, and whether task t
\* will run without a further wake-up: its id is in task_queue, or main has
\* popped it and is polling it.
PollPcs == {"waker", "waker_new", "poll", "stream_new", "pop1", "register", "pop2"}
InQueue(q, t) == \E k \in 1..Len(q) : q[k] = t
Scheduled(t) ==
    InQueue(executor.task_queue, t) \/ (executor.task_id = t /\ executor.pc \in PollPcs)

\* C34: no wake-up of the scancode stream is lost.  Whenever a scancode is
\* in the queue, print_keypresses is being polled or its id is in
\* task_queue; and while its waker is registered and the poll has returned
\* Pending, the queue is empty: a push after the second pop has taken the
\* waker and woken the task.
C34_NoLostWakeup ==
    kind = "locked_heap" =>
        /\ keyboard.queue # << >> => Scheduled(PRINT_KEYPRESSES)
        /\ (keyboard.WAKER # NoTask /\ executor.pc \notin PollPcs) =>
              keyboard.queue = << >>

\* The poll has returned Pending and main went on to sleep; add_scancode then
\* pushed a scancode and woke the task, whose id waits in task_queue.
C34_Witness ==
    /\ kind = "locked_heap" /\ irq.woke /\ irq.last = "add_scancode"
    /\ keyboard.queue # << >>
    /\ keyboard.WAKER = NoTask
    /\ executor.pc \in {"sleep", "hlt_next", "pop"}
    /\ executor.task_queue = <<PRINT_KEYPRESSES>>

\* C35: add_scancode wakes the stored waker only after a successful push.
\* A step of add_scancode that finds the queue full or not yet initialised
\* drops the scancode: the queue, WAKER, task_queue and the wakers stay as
\* they are.  In every step, what poll_next has returned so far followed by
\* what is in the queue is what was pushed: push order, each scancode once.
C35_PushThenWake ==
    [][/\ (/\ irq'.count = irq.count + 1 /\ irq'.last = "add_scancode"
           /\ (~keyboard.init \/ Len(keyboard.queue) = ScancodeCap))
          => /\ keyboard'.queue = keyboard.queue
             /\ keyboard'.WAKER = keyboard.WAKER
             /\ keyboard'.dropped = keyboard.dropped + 1
             /\ executor'.task_queue = executor.task_queue
             /\ wakers' = wakers
             /\ ~irq'.woke \/ irq.woke
       /\ keyboard'.delivered \o keyboard'.queue = keyboard'.pushed
       /\ Len(keyboard'.pushed) + keyboard'.dropped <= irq'.count
      ]_vars

\* A scancode was dropped at a full queue while the waker was registered,
\* between the registration and the second pop, and the waker is still there.
C35_Witness ==
    /\ kind = "locked_heap" /\ keyboard.init
    /\ irq.last = "add_scancode" /\ keyboard.dropped > 0
    /\ Len(keyboard.queue) = ScancodeCap
    /\ keyboard.WAKER = PRINT_KEYPRESSES
    /\ executor.pc = "pop2"

\* C36: the executor is never halted while a task id is in task_queue: the
\* CPU sleeps only if the queue is still empty.
C36_NoHaltWithWork ==
    kind = "locked_heap" => (executor.pc = "hlt" => executor.task_queue = << >>)

\* C38: with no more tasks than task_queue has room for, a push of a task id
\* never finds the queue full: neither the expect of spawn nor the expect of
\* wake_task stops the kernel.
C38_QueueNeverFull ==
    kind = "locked_heap" => ~panicked

\* C37: in run_ready_tasks a task whose poll returned Ready leaves tasks
\* together with its cached waker and is never polled again: main creates a
\* waker for, and polls, only ids that are in tasks, and after the spawns no
\* id enters tasks.  A popped id with no entry in tasks is skipped: the step
\* takes it from the queue and changes nothing else.  The keys of
\* waker_cache are always among the keys of tasks.
C37_ReadyRemoved ==
    [][/\ executor'.waker_cache \subseteq executor'.tasks
       /\ executor'.pc \in {"waker", "waker_new", "poll", "ready"}
             => executor'.task_id \in executor'.tasks
       /\ (executor.pc = "ready" /\ executor'.pc # "ready")
             => /\ executor.task_id \notin executor'.tasks
                /\ executor.task_id \notin executor'.waker_cache
       /\ executor.pc # "spawn" => executor'.tasks \subseteq executor.tasks
       /\ (/\ executor.pc = "pop" /\ irq' = irq
           /\ executor.task_queue # << >>
           /\ Head(executor.task_queue) \notin executor.tasks)
             => /\ executor'.pc = "pop"
                /\ executor'.task_queue = Tail(executor.task_queue)
                /\ executor'.tasks = executor.tasks
                /\ executor'.waker_cache = executor.waker_cache
                /\ wakers' = wakers
      ]_vars

\* A task was woken twice, polled once more and found Ready; the second copy
\* of its id was then popped and skipped, while the other task lives on with
\* its waker in the cache.
C37_Witness ==
    /\ kind = "locked_heap" /\ executor.skipped /\ executor.pc = "pop"
    /\ executor.task_id \notin executor.tasks
    /\ executor.task_id \notin executor.waker_cache
    /\ executor.tasks # {}
    /\ executor.waker_cache = executor.tasks

\* C39: no interrupt handler spins for ever on a spin lock held by the code
\* it interrupted: no handler that can fire takes WRITER, SERIAL1 or PICS
\* while the interrupted code holds it.
C39_NoHandlerSpins ==
    kind = "locked_heap" => ~vga.spin

\* The row above the last holds the string s from column 0 on.
RowHolds(w, s) ==
    \A i \in 1..Len(s) : w.chars[BufferHeight - 2][i - 1] = s[i]

\* C40: once println! of a printable string of at most one row has returned,
\* a read of the screen under the WRITER lock finds the string in the row
\* above the last, from column 0 on; and column_position never exceeds the
\* width of a row.
C40_PrintlnRow ==
    kind = "locked_heap" =>
        /\ vga.writer.column_position <= BufferWidth
        /\ vga.pc = "reading" => RowHolds(vga.writer, vga.text)

====
